---- MODULE Spec2Model ----
(***************************************************************************)
(* Model of the survey ingestion pipeline (IngestionService) and of the    *)
(* sentiment enrichment service (SentimentAnalysisService).                *)
(*                                                                         *)
(* The database is a record of tables, each a set of rows with an integer  *)
(* primary key.  Every worker owns a SQLAlchemy session: the rows it has   *)
(* flushed but not committed (staged) overlay the committed tables.        *)
(* Optional values are sequences of length 0 (None) or 1 (a value); texts  *)
(* are sequences of one-character strings, so that strip() and len() are   *)
(* computed and never assumed.                                             *)
(***************************************************************************)
EXTENDS Integers, Sequences, FiniteSets, TLC

\* ---------------------------------------------------------------- bounds
MaxRows == 2
MaxRuns == 2
MaxLabel == 3

Workers == {1, 2}
\* The worker that executes the scheduled runs one after the other.
Scheduler == {1}

\* ------------------------------------------------------- optional values
None == <<>>
Some(x) == <<x>>

\* ---------------------------------------------------------------- fields
MetricFields == {"role_interest", "contribution", "learning", "feedback_score",
                 "manager_interaction", "career_clarity", "permanence", "enps"}

comment_fields == <<"role_interest_comment", "contribution_comment",
                    "learning_comment", "feedback_comment",
                    "manager_interaction_comment", "career_clarity_comment",
                    "permanence_comment", "enps_comment">>

TextFields == {comment_fields[i] : i \in 1..Len(comment_fields)}

\* Columns declared by the ResponseSentiment model.
ResponseSentimentColumns == {"id", "response_id", "field_name", "sentiment_label",
                             "sentiment_score", "created_at"}

\* ----------------------------------------------------------------- texts
IsSpace(c) == c = " "

RECURSIVE LStrip(_)
LStrip(s) == IF s = <<>> THEN <<>>
             ELSE IF IsSpace(Head(s)) THEN LStrip(Tail(s)) ELSE s

RECURSIVE RStrip(_)
RStrip(s) == IF s = <<>> THEN <<>>
             ELSE IF IsSpace(s[Len(s)]) THEN RStrip(SubSeq(s, 1, Len(s) - 1)) ELSE s

\* str.strip()
Strip(s) == RStrip(LStrip(s))

\* (value or '').strip() of an optional text
OrEmptyNoStrip(t) == IF t = None THEN <<>> ELSE t[1]

OrEmptyStrip(t) == IF t = None THEN <<>> ELSE Strip(t[1])

\* handle_empty_values on a raw text: blank or exactly '-' becomes None
handle_empty_values(raw) == IF Strip(raw) = <<>> \/ raw = <<"-">> THEN None ELSE Some(raw)

\* empty_str_to_none on a raw text: blank or exactly '-' becomes None
empty_str_to_none(raw) == IF Strip(raw) = <<>> \/ raw = <<"-">> THEN None ELSE Some(raw)

\* ------------------------------------------------------ raw cell parsing
\* Optional[int] fields: handle_empty_values first, then integer parsing.
\* "ok" is FALSE when pydantic rejects the cell.
ParseMetric(raw) ==
    CASE raw \in {"", " ", "-"} -> [ok |-> TRUE, val |-> None]
      [] raw = "0"  -> [ok |-> TRUE, val |-> Some(0)]
      [] raw = "5"  -> [ok |-> TRUE, val |-> Some(5)]
      [] raw = "10" -> [ok |-> TRUE, val |-> Some(10)]
      [] OTHER      -> [ok |-> FALSE, val |-> None]

\* parse_date: strptime(v, '%d/%m/%Y'); the date is <<year, month, day>>.
parse_date(raw) ==
    CASE raw = "01/01/2022" -> [ok |-> TRUE, val |-> <<2022, 1, 1>>]
      [] raw = "15/02/2022" -> [ok |-> TRUE, val |-> <<2022, 2, 15>>]
      [] OTHER              -> [ok |-> FALSE, val |-> <<0, 0, 0>>]

\* EmailStr: syntax check and normalisation (the domain part is lower-cased).
EmailStr(raw) ==
    CASE raw = "a@x.com" -> [ok |-> TRUE, val |-> "a@x.com"]
      [] raw = "b@x.com" -> [ok |-> TRUE, val |-> "b@x.com"]
      [] raw = "a@X.com" -> [ok |-> TRUE, val |-> "a@x.com"]
      [] OTHER           -> [ok |-> FALSE, val |-> ""]

\* f"Survey {survey_date.strftime('%m/%Y')}"
SurveyName(d) == <<"Survey", d[2], d[1]>>

\* --------------------------------------------------------- schema objects
\* SurveyResponseSchema(**row): valid iff the date and every metric parse.
SurveyResponseValid(row) ==
    /\ parse_date(row.date).ok
    /\ \A m \in MetricFields : ParseMetric(row.metrics[m]).ok

SurveyResponseSchema(row) ==
    [response_date |-> parse_date(row.date).val,
     metrics |-> [m \in MetricFields |-> ParseMetric(row.metrics[m]).val],
     texts   |-> [f \in TextFields |-> handle_empty_values(row.texts[f])]]

\* EmployeeSchema(**row): valid iff the email is well formed.
EmployeeValid(row) == EmailStr(row.email).ok

\* empty_str_to_none is declared for corporate_email, role and function; the
\* other optional fields (tenure among them) take the cell as it is.
EmployeeSchema(row) ==
    [email |-> EmailStr(row.email).val, name |-> row.nome,
     department |-> row.area, role |-> empty_str_to_none(row.cargo),
     tenure |-> row.tempo]

\* ------------------------------------------------------------ input rows
good   == <<"g", "o", "o", "d">>
goodSp == <<"g", "o", "o", "d", " ">>
bad    == <<"b", "a", "d", "!">>
nice   == <<"n", "i", "c", "e">>
blank  == <<" ">>
dash   == <<"-">>
dev    == <<"d", "e", "v">>

\* One CSV row after pd.read_csv(..., dtype=str).fillna(''): every cell a string.
MkRow(email, date, enps, role_comment, enps_comment) ==
    [email |-> email, nome |-> "Ann", area |-> "Eng", cargo |-> dev,
     tempo |-> "Entre 1 e 2 anos",
     date |-> date,
     metrics |-> [m \in MetricFields |-> IF m = "enps" THEN enps ELSE "5"],
     texts |-> [f \in TextFields |->
                  IF f = "enps_comment" THEN enps_comment
                  ELSE IF f = "role_interest_comment" THEN role_comment
                  ELSE <<>>]]

rowA == MkRow("a@x.com", "01/01/2022", "10", nice, good)
rowB == MkRow("a@x.com", "01/01/2022", "0", nice, good)
rowC == [MkRow("a@x.com", "01/01/2022", "10", nice, goodSp)
            EXCEPT !.texts["contribution_comment"] = blank]
rowD == MkRow("a@x.com", "01/01/2022", "0", nice, bad)
rowE == MkRow("b@x.com", "01/01/2022", "10", dash, blank)
rowF == MkRow("a@x.com", "2022-01-01", "10", nice, good)
rowG == MkRow("a@x.com", "01/01/2022", "10", nice, bad)
\* rowA with a two-character contribution comment
\* a row whose email is no address, answering a later survey
rowI == MkRow("nope", "15/02/2022", "10", nice, good)
rowS == [MkRow("a@x.com", "01/01/2022", "10", nice, good)
            EXCEPT !.texts["contribution_comment"] = <<"o", "k">>]
\* rowA with an eNPS cell that is no number
rowM == MkRow("a@x.com", "01/01/2022", "n/a", nice, good)

\* rowA with other employee cells: a placeholder role and tenure; the same
\* address in another spelling with a blank role and no tenure; and a second
\* employee.
rowJ == [rowA EXCEPT !.nome = "Bob", !.area = "Ops", !.cargo = dash, !.tempo = "-"]
rowK == [rowA EXCEPT !.email = "a@X.com", !.nome = "Cy", !.cargo = blank, !.tempo = ""]
rowL == [rowE EXCEPT !.nome = "Dan"]

\* Rows offered to a pipeline that starts on an empty database, and rows
\* offered to one whose database already holds the response of rowA.
RowCatalogue == {rowA, rowD}
StoredCatalogue == {rowB, rowC, rowG}

RECURSIVE SeqsUpTo(_, _)
SeqsUpTo(S, n) == IF n = 0 THEN {<<>>}
                  ELSE LET shorter == SeqsUpTo(S, n - 1)
                       IN shorter \cup {Append(q, x) : q \in {t \in shorter : Len(t) = n - 1}, x \in S}

\* The files a run can be given: 1..MaxRows rows of the catalogue.
FilesOf(catalogue) == SeqsUpTo(catalogue, MaxRows) \ {<<>>}

\* --------------------------------------------------------------- database
TableNames == {"departments", "employees", "surveys", "responses", "sentiments"}

EmptyTables == [t \in TableNames |-> {}]

\* A session's pending state: rows flushed but not committed, and the ids of
\* the sentiment rows deleted by a bulk delete.
EmptySession == [rows |-> EmptyTables, deleted |-> {}]

Ids(rows) == {x.id : x \in rows}

Overlay(base, over) == LET changed == Ids(over)
                       IN {x \in base : x.id \notin changed} \cup over

\* {key(x): x.id for x in Model.query.all()}: a later row replaces an earlier key.
Lookup(dict, k) == IF \E p \in dict : p[1] = k
                   THEN Some((CHOOSE p \in dict : p[1] = k)[2]) ELSE None

\* cache[k] = v
DictSetDropped(dict, k, v) == dict

DictSet(dict, k, v) == {p \in dict : p[1] # k} \cup {<<k, v>>}

Min(S) == CHOOSE x \in S : \A y \in S : x <= y

\* ------------------------------------------------------------------ state
VARIABLES
    db,             \* committed tables
    seq,            \* last primary key handed out, per table
    staged,         \* per worker: the session's uncommitted writes
    pc,             \* per worker: position inside run_pipeline
    df,             \* per worker: the loaded rows
    idx,            \* per worker: row of the response pass to process next
    emp_cache,      \* per worker: emp_cache of _process_responses_and_ai
    survey_cache,   \* per worker: survey_cache of _process_responses_and_ai
    stats,          \* per worker: the run's counters
    exc,            \* per worker: the exception run_pipeline raised ("" if none)
    cache_file,     \* content of local_cache_path (None if the file is absent)
    _pipeline,      \* SentimentAnalysisService._pipeline: 0 for None, else the instance
    built,          \* number of engines constructed by this process
    runs,           \* number of runs started
    calls,          \* per worker: response ids passed to analyze_response in this run
    last,           \* per worker: what the response pass did with its latest row
    prev,           \* the file of the latest finished run if it returned, else None
    before,         \* per worker: prev, db and seq as they were when the run started,
                    \* retry: the worker's run before this one raised on the same rows,
                    \* the payload the run downloaded (None if it did not), and
                    \* the cache content the run found when it did not download
    analysis,       \* the latest analyze_response call made outside the pipeline
    steps,          \* per worker: the steps of run_pipeline finished in this run
    star_label,     \* the argument of the latest _map_stars_to_label call
    mapped,         \* what that call returned ("" before it returns)
    gp,             \* per thread: position inside get_pipeline, the instance it
                    \* returned last (0 if none) and the number of its calls
    task            \* per Celery task: its state, request.retries, the countdowns
                    \* of its retries, its invocations and the exception it surfaced

vars == <<db, seq, staged, pc, df, idx, emp_cache, survey_cache, stats, exc,
          cache_file, _pipeline, built, runs, calls, last, prev, before, analysis,
          steps, star_label, mapped, gp, task>>

\* What the pipeline's own steps leave alone.
aside == <<star_label, mapped, gp, task>>

\* The two Celery tasks that call the ingestion service.
TaskNames == {"async_ingest_data", "run_full_data_sync", "async_analyze_batch"}

\* A task message waiting for a worker: request.retries is 0.
Queued == [state |-> "queued", retries |-> 0, delays |-> <<>>, n |-> 0, exc |-> ""]

ZeroStats == [processed |-> 0, updated |-> 0, created |-> 0, errors |-> 0,
              ai_analyzed |-> 0, skipped |-> 0]

NoRow == [kind |-> "none", rid |-> 0, ai |-> FALSE, ai_raised |-> FALSE,
          invoked |-> {}, failed |-> {}, pre |-> <<>>, pre_sent |-> {}, fk |-> <<>>, ncalls |-> 0,
          d |-> [created |-> 0, updated |-> 0, skipped |-> 0, errors |-> 0,
                 ai_analyzed |-> 0]]

NoAnalysis == [rid |-> 0, raised |-> FALSE, outcome |-> <<>>, pre_sent |-> {},
               invoked |-> {}, repeat |-> FALSE]

Active(w) == pc[w] \in {"pass1", "pass2", "begin3", "pass3", "commit"}

\* What the session of worker w reads: its own writes over the committed rows.
TableView(d, st, t) ==
    IF t = "sentiments"
    THEN Overlay({x \in d[t] : x.id \notin st.deleted}, st.rows[t])
    ELSE Overlay(d[t], st.rows[t])

ViewOf(d, st) == [t \in TableNames |-> TableView(d, st, t)]

View(w) == ViewOf(db, staged[w])

\* Put a new or modified row into the session (an unmodified row emits no SQL).
Stage(st, t, row, d) ==
    IF row \in TableView(d, st, t) THEN st
    ELSE [st EXCEPT !.rows[t] = {x \in @ : x.id # row.id} \cup {row}]

\* {key: id} dictionaries built from query.all(); rows come back in id order,
\* so for a repeated key the row with the largest id stays.
DeptDict(rows) == {<<x.name, x.id>> : x \in {y \in rows : \A z \in rows : z.name = y.name => z.id <= y.id}}
EmpDict(rows) == {<<x.email, x.id>> : x \in {y \in rows : \A z \in rows : z.email = y.email => z.id <= y.id}}
SurveyDict(rows) == {<<x.date, x.id>> : x \in {y \in rows : \A z \in rows : z.date = y.date => z.id <= y.id}}

\* ------------------------------------------- _process_employees_and_departments
\* Employee(email=...): the other columns are not set yet.
Employee(id, email) ==
    [id |-> id, email |-> email, name |-> "", department_id |-> 0, role |-> None,
     tenure |-> ""]

\* _update_employee_fields: every non-identity column the schema carries is
\* overwritten.  (tenure_rank is assigned too, but Employee declares no
\* such column.)
_update_employee_fields_merging(employee, dto, dept_id) ==
    [employee EXCEPT !.name = dto.name, !.department_id = dept_id,
                     !.role = IF dto.role = None THEN @ ELSE dto.role,
                     !.tenure = dto.tenure]

_update_employee_fields(employee, dto, dept_id) ==
    [employee EXCEPT !.name = dto.name, !.department_id = dept_id,
                     !.role = dto.role, !.tenure = dto.tenure]

\* One iteration of the loop; S carries the session, the key counters and the
\* two caches.  A row whose EmployeeSchema fails is skipped by the except clause.
EmployeeRow(S, row, d) ==
    IF ~EmployeeValid(row) THEN S
    ELSE
      LET dto == EmployeeSchema(row)
          known_dept == Lookup(S.dept_cache, dto.department)
          dept_id == IF known_dept = None THEN S.seq.departments + 1 ELSE known_dept[1]
          S1 == IF known_dept = None
                THEN [S EXCEPT !.st = Stage(@, "departments",
                                            [id |-> dept_id, name |-> dto.department], d),
                               !.seq.departments = dept_id,
                               !.dept_cache = DictSet(@, dto.department, dept_id)]
                ELSE S
          known_emp == Lookup(S1.emp_cache, dto.email)
          emp_id == IF known_emp = None THEN S1.seq.employees + 1 ELSE known_emp[1]
          employee == IF known_emp = None THEN Employee(emp_id, dto.email)
                      ELSE CHOOSE x \in TableView(d, S1.st, "employees") : x.id = emp_id
      IN [S1 EXCEPT !.st = Stage(@, "employees",
                                 _update_employee_fields(employee, dto, dept_id), d),
                    !.seq.employees = IF known_emp = None THEN emp_id ELSE @,
                    !.emp_cache = DictSet(@, dto.email, emp_id)]

RECURSIVE EmployeeLoop(_, _, _, _)
EmployeeLoop(rows, i, S, d) ==
    IF i > Len(rows) THEN S ELSE EmployeeLoop(rows, i + 1, EmployeeRow(S, rows[i], d), d)

\* ------------------------------------------------------------ _process_surveys
SurveyRow(S, row, d) ==
    IF ~SurveyResponseValid(row) THEN S
    ELSE
      LET survey_date == SurveyResponseSchema(row).response_date
      IN IF Lookup(S.cache, survey_date) = None
         THEN LET sid == S.seq.surveys + 1
              IN [S EXCEPT !.st = Stage(@, "surveys",
                                        [id |-> sid, date |-> survey_date,
                                         name |-> SurveyName(survey_date)], d),
                           !.seq.surveys = sid,
                           !.cache = DictSet(@, survey_date, sid)]
         ELSE S

\* for _, row in df.iterrows(): try ... except Exception: continue
RECURSIVE SurveyLoopStopsAtInvalid(_, _, _, _)
SurveyLoopStopsAtInvalid(rows, i, S, d) ==
    IF i > Len(rows) \/ ~SurveyResponseValid(rows[i]) THEN S
    ELSE SurveyLoopStopsAtInvalid(rows, i + 1, SurveyRow(S, rows[i], d), d)

RECURSIVE SurveyLoop(_, _, _, _)
SurveyLoop(rows, i, S, d) ==
    IF i > Len(rows) THEN S ELSE SurveyLoop(rows, i + 1, SurveyRow(S, rows[i], d), d)

\* --------------------------------------------------------- response helpers
\* _has_text_changes: any text field differs after (x or '').strip() on both sides
_has_text_or_metric_changes(response, dto) ==
    \/ \E f \in TextFields : OrEmptyStrip(response.texts[f]) # OrEmptyStrip(dto.texts[f])
    \/ \E m \in MetricFields : response.metrics[m] # dto.metrics[m]

_has_text_changes_after_overwrite(response, dto) ==
    \E f \in TextFields : OrEmptyStrip(dto.texts[f]) # OrEmptyStrip(dto.texts[f])

_has_text_changes(response, dto) ==
    \E f \in TextFields : OrEmptyStrip(response.texts[f]) # OrEmptyStrip(dto.texts[f])

\* _has_any_changes: a metric differs (None counts as a value) or a text differs
_has_any_changes(response, dto) ==
    \/ \E m \in MetricFields : response.metrics[m] # dto.metrics[m]
    \/ _has_text_changes(response, dto)

\* _update_response_data: all 8 metrics and all 8 texts are overwritten
_update_response_metrics_only(response, dto) ==
    [response EXCEPT !.metrics = dto.metrics]

_update_response_changed_fields(response, dto) ==
    [response EXCEPT !.metrics = dto.metrics,
                     !.texts = [f \in TextFields |->
                                  IF OrEmptyStrip(response.texts[f]) # OrEmptyStrip(dto.texts[f])
                                  THEN dto.texts[f] ELSE response.texts[f]]]

_update_response_data(response, dto) ==
    [response EXCEPT !.metrics = dto.metrics, !.texts = dto.texts]

\* ------------------------------------------------- SentimentAnalysisService
\* What one call of the inference engine can do: raise, or return a label
\* (a text) with a confidence in percent.
EngineOutcomes ==
    {[raises |-> TRUE,  label |-> <<>>, score |-> 0],
     [raises |-> FALSE, label |-> <<"5", " ", "s", "t", "a", "r", "s">>, score |-> 99],
     [raises |-> FALSE, label |-> <<"1", " ", "s", "t", "a", "r">>, score |-> 88],
     [raises |-> FALSE, label |-> <<"i", "n", "v", "a", "l", "i", "d">>, score |-> 50]}

\* str.split(): the maximal runs of non-whitespace characters, in order
RECURSIVE str_split(_)
str_split(s) ==
    LET t == LStrip(s)
    IN IF t = <<>> THEN <<>>
       ELSE LET stops == {i \in 1..Len(t) : IsSpace(t[i])}
                n == IF stops = {} THEN Len(t) + 1 ELSE Min(stops)
            IN <<SubSeq(t, 1, n - 1)>> \o str_split(SubSeq(t, n, Len(t)))

DigitOf(c) ==
    CASE c = "0" -> 0 [] c = "1" -> 1 [] c = "2" -> 2 [] c = "3" -> 3 [] c = "4" -> 4
      [] c = "5" -> 5 [] c = "6" -> 6 [] c = "7" -> 7 [] c = "8" -> 8 [] c = "9" -> 9
      [] OTHER -> -1

RECURSIVE DigitsValue(_)
DigitsValue(ds) ==
    IF ds = <<>> THEN 0
    ELSE 10 * DigitsValue(SubSeq(ds, 1, Len(ds) - 1)) + DigitOf(ds[Len(ds)])

\* int(token) of a token without whitespace: an optional sign, then one or
\* more decimal digits; anything else is a ValueError (ok = FALSE).
IntOf(token) ==
    LET signed == token # <<>> /\ Head(token) \in {"+", "-"}
        digits == IF signed THEN Tail(token) ELSE token
    IN IF digits = <<>> \/ \E i \in 1..Len(digits) : DigitOf(digits[i]) < 0
       THEN [ok |-> FALSE, val |-> 0]
       ELSE [ok |-> TRUE,
             val |-> IF signed /\ Head(token) = "-"
                     THEN 0 - DigitsValue(digits) ELSE DigitsValue(digits)]

\* int(label.split()[0]): IndexError without a token, ValueError on a non-integer
LeadingInt(label) ==
    LET tokens == str_split(label)
    IN IF tokens = <<>> THEN [ok |-> FALSE, val |-> 0] ELSE IntOf(tokens[1])

_map_stars_to_label_off_by_one(label) ==
    LET stars == LeadingInt(label)
    IN IF ~stars.ok THEN "NEUTRAL"
       ELSE IF stars.val > 4 THEN "POSITIVE"
       ELSE IF stars.val < 2 THEN "NEGATIVE"
       ELSE "NEUTRAL"

_map_stars_to_label(label) ==
    LET stars == LeadingInt(label)
    IN IF ~stars.ok THEN "NEUTRAL"
       ELSE IF stars.val >= 4 THEN "POSITIVE"
       ELSE IF stars.val <= 2 THEN "NEGATIVE"
       ELSE "NEUTRAL"

\* The fields analyze_response does not skip: text present and len(strip) >= 3.
AnalysableWhenPresent(text) == text # None /\ text[1] # <<>>

Analysable(text) == text # None /\ text[1] # <<>> /\ Len(Strip(text[1])) >= 3

AnalysableFields(response) == {f \in TextFields : Analysable(response.texts[f])}

\* Keyword arguments of the ResponseSentiment(...) call in analyze_response.
SentimentKwargs == {"response_id", "field_name", "sentiment_label",
                    "sentiment_score", "sentiment_rating"}

\* The declarative constructor raises TypeError for a keyword that is no
\* attribute of the mapped class.
ConstructorAccepts(kwargs) == kwargs \subseteq ResponseSentimentColumns

\* existing_sentiment.sentiment_label = label; .sentiment_score = score
\* (.sentiment_rating = stars_int sets a plain attribute: no column stores it)
UpdateSentimentAccumulating(existing_sentiment, label, score) ==
    [existing_sentiment EXCEPT !.sentiment_label = label,
                               !.sentiment_score = (@ + score) \div 2]

UpdateSentiment(existing_sentiment, label, score) ==
    [existing_sentiment EXCEPT !.sentiment_label = label, !.sentiment_score = score]

\* Body of the loop over comment_fields for one field.  S carries the session
\* the key counters, the fields the engine was invoked on (invoked) and the
\* fields for which that invocation raised (failed); out[f] is what the
\* engine does for field f.
AnalyzeField(S, response, f, out, d) ==
    IF ~Analysable(response.texts[f]) THEN S
    ELSE IF out[f].raises
    THEN [S EXCEPT !.invoked = @ \cup {f}, !.failed = @ \cup {f}]
    ELSE
      LET stars == LeadingInt(out[f].label)
          label == _map_stars_to_label(out[f].label)
          same == {x \in TableView(d, S.st, "sentiments") :
                      x.response_id = response.id /\ x.field_name = f}
          T == [S EXCEPT !.invoked = @ \cup {f}]
      IN IF ~stars.ok THEN T
         ELSE IF same # {}
         THEN LET existing_sentiment == CHOOSE x \in same : x.id = Min(Ids(same))
              IN [T EXCEPT !.st = Stage(@, "sentiments",
                                        UpdateSentiment(existing_sentiment, label,
                                                        out[f].score), d)]
         ELSE IF ~ConstructorAccepts(SentimentKwargs) THEN T
         ELSE LET sid == T.seq.sentiments + 1
              IN [T EXCEPT !.st = Stage(@, "sentiments",
                                        [id |-> sid, response_id |-> response.id,
                                         field_name |-> f, sentiment_label |-> label,
                                         sentiment_score |-> out[f].score], d),
                           !.seq.sentiments = sid]

RECURSIVE AnalyzeLoop(_, _, _, _, _)
AnalyzeLoop(i, S, response, out, d) ==
    IF i > Len(comment_fields) THEN S
    ELSE AnalyzeLoop(i + 1, AnalyzeField(S, response, comment_fields[i], out, d),
                     response, out, d)

\* analyze_response(response_id) in the session st.  load_ok says whether
\* get_pipeline can construct the engine when it is not constructed yet.
analyze_response(st, sq, response_id, out, loaded, load_ok, d) ==
    LET found == {x \in TableView(d, st, "responses") : x.id = response_id}
        S0 == [st |-> st, seq |-> sq, invoked |-> {}, failed |-> {}]
    IN IF found = {}
       THEN [raised |-> FALSE, st |-> st, seq |-> sq, loaded |-> loaded,
             invoked |-> {}, failed |-> {}]
       ELSE IF ~loaded /\ ~load_ok
       THEN [raised |-> TRUE, st |-> st, seq |-> sq, loaded |-> FALSE,
             invoked |-> {}, failed |-> {}]
       ELSE LET S == AnalyzeLoop(1, S0, CHOOSE x \in found : TRUE, out, d)
            IN [raised |-> FALSE, st |-> S.st, seq |-> S.seq, loaded |-> TRUE,
                invoked |-> S.invoked, failed |-> S.failed]

\* Response.query.filter_by(employee_id=..., survey_id=...): the query flushes
\* the session first, so it reads the rows staged by earlier rows of the run.
ExistingResponsesCommitted(tables, emp_id, survey_id) ==
    {x \in db.responses : x.employee_id = emp_id /\ x.survey_id = survey_id}

ExistingResponses(tables, emp_id, survey_id) ==
    {x \in tables.responses : x.employee_id = emp_id /\ x.survey_id = survey_id}

\* ResponseSentiment.query.filter_by(response_id=...).delete(): every sentiment
\* row of the response goes, whatever its field.
PurgeSentimentsOfChangedField(st, stored, response_id) ==
    [st EXCEPT !.rows.sentiments = {x \in @ : ~(x.response_id = response_id
                                                 /\ x.field_name = "enps_comment")},
               !.deleted = @ \cup Ids({x \in stored : x.field_name = "enps_comment"})]

PurgeSentiments(st, stored, response_id) ==
    [st EXCEPT !.rows.sentiments = {x \in @ : x.response_id # response_id},
               !.deleted = @ \cup Ids(stored)]

\* if should_run_ai: flush, analyze_response(target_response.id), count it.
\* a is what the call did; when it raised, the except clause of the loop
\* counts an error and the row's earlier writes stay in the session.
AiTrigger(R, a, response_id) ==
    [R EXCEPT !.st = a.st, !.seq = a.seq, !.loaded = a.loaded,
              !.calls = Append(@, response_id),
              !.stats.ai_analyzed = IF a.raised THEN @ ELSE @ + 1,
              !.stats.errors = IF a.raised THEN @ + 1 ELSE @,
              !.last.ai = TRUE, !.last.ai_raised = a.raised,
              !.last.invoked = a.invoked, !.last.failed = a.failed]

\* -------------------------------------------- _process_responses_and_ai, one row
\* Everything the loop body does with one row, as a record of the new
\* session, counters and bookkeeping.  out and load_ok are the behaviour of
\* the inference engine during this row.
ResponseRowOn(row, st, sq, d, loaded, counted, called, emps, surveys, out, load_ok) ==
    LET view == ViewOf(d, st)
        keep == [st |-> st, seq |-> sq, loaded |-> loaded, stats |-> counted,
                 calls |-> called, last |-> NoRow]
    IN
    IF ~SurveyResponseValid(row)
    THEN [keep EXCEPT !.stats.errors = @ + 1, !.last.kind = "INVALID"]
    ELSE
      LET resp_dto == SurveyResponseSchema(row)
          emp_id == Lookup(emps, row.email)
          survey_id == Lookup(surveys, resp_dto.response_date)
      IN
      IF emp_id = None \/ survey_id = None
      THEN [keep EXCEPT !.last.kind = "SKIP_FK"]
      ELSE
        LET matching == ExistingResponses(view, emp_id[1], survey_id[1])
        IN
        IF matching # {}
        THEN
          LET existing_response == CHOOSE x \in matching : x.id = Min(Ids(matching))
              pre_sent == {x \in view.sentiments : x.response_id = existing_response.id}
              seen == [keep EXCEPT !.last.rid = existing_response.id,
                                   !.last.fk = Some(<<emp_id[1], survey_id[1]>>),
                                   !.last.pre = Some(existing_response),
                                   !.last.pre_sent = pre_sent]
          IN
          IF ~_has_any_changes(existing_response, resp_dto)
          THEN [seen EXCEPT !.stats.skipped = @ + 1, !.last.kind = "UNCHANGED"]
          ELSE
            LET text_changed == _has_text_changes(existing_response, resp_dto)
                st1 == Stage(st, "responses",
                             _update_response_data(existing_response, resp_dto), d)
                upd == [seen EXCEPT !.st = st1, !.stats.updated = @ + 1,
                                    !.last.kind = "UPDATED"]
            IN
            IF ~text_changed THEN upd
            ELSE
              \* ResponseSentiment.query.filter_by(response_id=...).delete()
              LET st2 == PurgeSentiments(st1, pre_sent, existing_response.id)
                  a == analyze_response(st2, sq, existing_response.id, out,
                                        loaded, load_ok, d)
              IN AiTrigger(upd, a, existing_response.id)
        ELSE
          LET rid == sq.responses + 1
              new_response == _update_response_data(
                                [id |-> rid, employee_id |-> emp_id[1],
                                 survey_id |-> survey_id[1],
                                 metrics |-> [m \in MetricFields |-> None],
                                 texts |-> [f \in TextFields |-> None]], resp_dto)
              st1 == Stage(st, "responses", new_response, d)
              sq1 == [sq EXCEPT !.responses = rid]
              a == analyze_response(st1, sq1, rid, out, loaded, load_ok, d)
          IN AiTrigger([keep EXCEPT !.stats.created = @ + 1,
                                    !.last.kind = "NEW", !.last.rid = rid,
                                    !.last.fk = Some(<<emp_id[1], survey_id[1]>>)],
                       a, rid)

\* The loop body on row df[w][idx[w]] of the run of worker w.
ResponseRow(w, out, load_ok) ==
    ResponseRowOn(df[w][idx[w]], staged[w], seq, db, _pipeline # 0, stats[w], calls[w],
                  emp_cache[w], survey_cache[w], out, load_ok)

\* The engine is consulted only for the analysable fields of a row that is
\* enriched; for every other row there is nothing to choose.
EngineSilent(row) ==
    [f \in AnalysableFields(SurveyResponseSchema(row)) |->
        [raises |-> TRUE, label |-> <<>>, score |-> 0]]

Enriched(w) ==
    /\ SurveyResponseValid(df[w][idx[w]])
    /\ ResponseRow(w, EngineSilent(df[w][idx[w]]), TRUE).last.ai

EngineChoices(w) ==
    IF Enriched(w)
    THEN [AnalysableFields(SurveyResponseSchema(df[w][idx[w]])) -> EngineOutcomes]
    ELSE {<<>>}

\* get_pipeline constructs the engine on the first call; construction can fail.
LoadChoices(w) == IF Enriched(w) /\ _pipeline = 0 THEN BOOLEAN ELSE {TRUE}

\* ---------------------------------------------------------------- actions
InitWith(tables, label) ==
    /\ star_label = label
    /\ db = tables
    /\ seq = [t \in TableNames |-> Cardinality(tables[t])]
    /\ staged = [w \in Workers |-> EmptySession]
    /\ pc = [w \in Workers |-> "idle"]
    /\ df = [w \in Workers |-> <<>>]
    /\ idx = [w \in Workers |-> 0]
    /\ emp_cache = [w \in Workers |-> {}]
    /\ survey_cache = [w \in Workers |-> {}]
    /\ stats = [w \in Workers |-> ZeroStats]
    /\ exc = [w \in Workers |-> ""]
    /\ cache_file = None
    /\ _pipeline = 0
    /\ built = 0
    /\ runs = 0
    /\ calls = [w \in Workers |-> <<>>]
    /\ last = [w \in Workers |-> NoRow]
    /\ prev = None
    /\ before = [w \in Workers |-> [prev |-> None, db |-> tables, cache |-> None,
                                      fetched |-> None, retry |-> FALSE,
                                      seq |-> [t \in TableNames |-> Cardinality(tables[t])]]]
    /\ analysis = NoAnalysis
    /\ steps = [w \in Workers |-> <<>>]
    /\ mapped = ""
    /\ gp = [t \in Workers |-> [pc |-> "idle", got |-> 0, n |-> 0]]
    /\ task = [t \in TaskNames |-> Queued]

InitOn(tables) == InitWith(tables, <<>>)

\* db.create_all(): every table exists and is empty.
Init == InitOn(EmptyTables)

\* db.session.rollback(): the pending writes are discarded
session_keeps_pending(st) == st

session_rollback(st) == EmptySession

\* except Exception: db.session.rollback(); raise e
Rollback(w, e) ==
    /\ staged' = [staged EXCEPT ![w] = session_rollback(@)]
    /\ pc' = [pc EXCEPT ![w] = "raised"]
    /\ exc' = [exc EXCEPT ![w] = e]
    /\ prev' = None
    /\ idx' = [idx EXCEPT ![w] = 0]
    /\ emp_cache' = [emp_cache EXCEPT ![w] = {}]
    /\ survey_cache' = [survey_cache EXCEPT ![w] = {}]
    /\ last' = [last EXCEPT ![w] = NoRow]

\* What requests.get can do for a run: fail (None) or serve one of the files.
\* With force_local the remote source is not contacted.
Remote(files, force_local) ==
    IF force_local THEN {None} ELSE {None} \cup {Some(f) : f \in files}

\* _load_data: the content the run parses (None when FileNotFoundError is
\* raised) and the content of local_path afterwards.  source is the body the
\* remote serves, None when requests.get or raise_for_status raises.
_load_data_clearing_cache(source, force_local, cache) ==
    LET downloaded == ~force_local /\ source # None
    IN [csv_content |-> IF downloaded THEN source ELSE cache,
        cache_file |-> IF downloaded THEN source ELSE None]

_load_data_cache_first(source, force_local, cache) ==
    LET downloaded == ~force_local /\ source # None
    IN [csv_content |-> IF cache # None THEN cache ELSE IF downloaded THEN source ELSE None,
        cache_file |-> IF downloaded THEN source ELSE cache]

_load_data(source, force_local, cache) ==
    LET downloaded == ~force_local /\ source # None
    IN [csv_content |-> IF downloaded THEN source ELSE cache,
        cache_file |-> IF downloaded THEN source ELSE cache]

\* run_pipeline up to and including _load_data.  source is what the remote
\* serves, None when the request raises.  With exclusive the run starts only
\* while no other run is in flight; limit caps the number of runs explored.
StartRun(w, source, force_local, exclusive, limit) ==
    /\ ~Active(w)
    /\ runs < limit
    /\ exclusive => \A v \in Workers : ~Active(v)
    /\ runs' = runs + 1
    /\ \E L \in {_load_data(source, force_local, cache_file)} :
          /\ cache_file' = L.cache_file
          /\ stats' = [stats EXCEPT ![w] = ZeroStats]
          /\ calls' = [calls EXCEPT ![w] = <<>>]
          /\ before' = [before EXCEPT ![w] =
                          [prev |-> prev, db |-> db, seq |-> seq,
                           retry |-> /\ pc[w] = "raised"
                                     /\ df[w] # <<>>
                                     /\ L.csv_content = Some(df[w]),
                           fetched |-> IF force_local THEN None ELSE source,
                           cache |-> IF ~force_local /\ source # None
                                     THEN None ELSE cache_file]]
          /\ steps' = [steps EXCEPT ![w] = <<>>]
          /\ analysis' = NoAnalysis
          /\ IF L.csv_content = None
             THEN /\ Rollback(w, "FileNotFoundError")
                  /\ df' = [df EXCEPT ![w] = <<>>]
             ELSE /\ df' = [df EXCEPT ![w] = L.csv_content[1]]
                  /\ pc' = [pc EXCEPT ![w] = "pass1"]
                  /\ exc' = [exc EXCEPT ![w] = ""]
                  /\ idx' = [idx EXCEPT ![w] = 0]
                  /\ last' = [last EXCEPT ![w] = NoRow]
                  /\ UNCHANGED <<staged, prev, emp_cache, survey_cache>>
    /\ UNCHANGED <<star_label, mapped, gp, db, seq, _pipeline, built>>

run_pipeline(w, source, force_local, exclusive) ==
    /\ StartRun(w, source, force_local, exclusive, MaxRuns)
    /\ UNCHANGED task

\* A flush that inserts a department name or an employee email which another
\* session has inserted and not yet committed waits on the unique index.
WaitsOnUniqueIndex(w, st) ==
    \E v \in Workers \ {w} :
        \/ \E x \in staged[v].rows.departments, y \in st.rows.departments :
               x.name = y.name /\ x.id # y.id
        \/ \E x \in staged[v].rows.employees, y \in st.rows.employees :
               x.email = y.email /\ x.id # y.id

_process_employees_and_departments(w) ==
    /\ pc[w] = "pass1"
    /\ \E S \in {EmployeeLoop(df[w], 1,
                             [st |-> staged[w], seq |-> seq,
                              dept_cache |-> DeptDict(View(w).departments),
                              emp_cache |-> EmpDict(View(w).employees)], db)} :
          /\ ~WaitsOnUniqueIndex(w, S.st)
          /\ staged' = [staged EXCEPT ![w] = S.st]
          /\ seq' = S.seq
    /\ pc' = [pc EXCEPT ![w] = "pass2"]
    /\ steps' = [steps EXCEPT ![w] = Append(@, "employees")]
    /\ UNCHANGED <<aside, db, df, idx, emp_cache, survey_cache, stats, exc, cache_file,
                   _pipeline, built, runs, calls, last, prev, before, analysis>>

_process_surveys(w) ==
    /\ pc[w] = "pass2"
    /\ \E S \in {SurveyLoop(df[w], 1,
                           [st |-> staged[w], seq |-> seq,
                            cache |-> SurveyDict(View(w).surveys)], db)} :
          /\ staged' = [staged EXCEPT ![w] = S.st]
          /\ seq' = S.seq
    /\ pc' = [pc EXCEPT ![w] = "begin3"]
    /\ steps' = [steps EXCEPT ![w] = Append(@, "surveys")]
    /\ UNCHANGED <<aside, db, df, idx, emp_cache, survey_cache, stats, exc, cache_file,
                   _pipeline, built, runs, calls, last, prev, before, analysis>>

\* _process_responses_and_ai before its loop: the two caches are read.
BeginResponsesBeforeSurveys(w) ==
    /\ pc[w] \in {"pass2", "begin3"}
    /\ emp_cache' = [emp_cache EXCEPT ![w] = EmpDict(View(w).employees)]
    /\ survey_cache' = [survey_cache EXCEPT ![w] = SurveyDict(View(w).surveys)]
    /\ idx' = [idx EXCEPT ![w] = 1]
    /\ pc' = [pc EXCEPT ![w] = IF Len(df[w]) = 0 THEN "commit" ELSE "pass3"]
    /\ steps' = [steps EXCEPT ![w] = IF Len(df[w]) = 0 THEN Append(@, "responses") ELSE @]
    /\ UNCHANGED <<aside, db, seq, staged, df, stats, exc, cache_file, _pipeline, built, runs,
                   calls, last, prev, before, analysis>>

BeginResponses(w) ==
    /\ pc[w] = "begin3"
    /\ emp_cache' = [emp_cache EXCEPT ![w] = EmpDict(View(w).employees)]
    /\ survey_cache' = [survey_cache EXCEPT ![w] = SurveyDict(View(w).surveys)]
    /\ idx' = [idx EXCEPT ![w] = 1]
    /\ pc' = [pc EXCEPT ![w] = IF Len(df[w]) = 0 THEN "commit" ELSE "pass3"]
    /\ steps' = [steps EXCEPT ![w] = IF Len(df[w]) = 0 THEN Append(@, "responses") ELSE @]
    /\ UNCHANGED <<aside, db, seq, staged, df, stats, exc, cache_file, _pipeline, built, runs,
                   calls, last, prev, before, analysis>>

\* cls._pipeline after a get_pipeline call: a successful first construction
\* stores the new instance, every other call leaves the attribute alone.
Constructed(loaded) == IF _pipeline = 0 /\ loaded THEN built + 1 ELSE _pipeline

\* _process_responses_and_ai as a function: the loop over the rows from row i
\* on.  The engine answers e for every field and can be constructed from row
\* load_from on.
RECURSIVE ResponseLoop(_, _, _, _, _, _, _, _)
ResponseLoop(rows, i, R, emps, surveys, d, e, load_from) ==
    IF i > Len(rows) THEN R
    ELSE ResponseLoop(rows, i + 1,
                      ResponseRowOn(rows[i], R.st, R.seq, d, R.loaded, R.stats, R.calls,
                                    emps, surveys, [f \in TextFields |-> e],
                                    i >= load_from),
                      emps, surveys, d, e, load_from)

\* run_pipeline as a function of the committed tables d, the last keys sq and
\* the rows of the file, in a session of its own: the three passes, then
\* processed = created + updated and the commit.
SingleRun(d, sq, rows, loaded, e, load_from) ==
    LET S1 == EmployeeLoop(rows, 1,
                           [st |-> EmptySession, seq |-> sq,
                            dept_cache |-> DeptDict(d.departments),
                            emp_cache |-> EmpDict(d.employees)], d)
        S2 == SurveyLoop(rows, 1,
                         [st |-> S1.st, seq |-> S1.seq,
                          cache |-> SurveyDict(ViewOf(d, S1.st).surveys)], d)
        R == ResponseLoop(rows, 1,
                          [st |-> S2.st, seq |-> S2.seq, loaded |-> loaded,
                           stats |-> ZeroStats, calls |-> <<>>, last |-> NoRow],
                          EmpDict(ViewOf(d, S2.st).employees),
                          SurveyDict(ViewOf(d, S2.st).surveys), d, e, load_from)
    IN [db |-> ViewOf(d, R.st),
        stats |-> [R.stats EXCEPT !.processed = R.stats.created + R.stats.updated]]

\* _process_responses_and_ai: one iteration of the loop, enrichment included.
ProcessResponseRow(w) ==
    /\ pc[w] = "pass3"
    /\ \E out \in EngineChoices(w), load_ok \in LoadChoices(w) :
         \E R \in {ResponseRow(w, out, load_ok)} :
            /\ staged' = [staged EXCEPT ![w] = R.st]
            /\ seq' = R.seq
            /\ _pipeline' = Constructed(R.loaded)
            /\ built' = IF _pipeline = 0 /\ R.loaded THEN built + 1 ELSE built
            /\ stats' = [stats EXCEPT ![w] = R.stats]
            /\ calls' = [calls EXCEPT ![w] = R.calls]
            /\ last' = [last EXCEPT ![w] =
                          [R.last EXCEPT !.ncalls = Len(R.calls) - Len(calls[w]),
                                         !.d = [k \in DOMAIN @ |-> R.stats[k] - stats[w][k]]]]
    /\ idx' = [idx EXCEPT ![w] = @ + 1]
    /\ pc' = [pc EXCEPT ![w] = IF idx[w] = Len(df[w]) THEN "commit" ELSE "pass3"]
    /\ steps' = [steps EXCEPT ![w] = IF idx[w] = Len(df[w]) THEN Append(@, "responses") ELSE @]
    /\ UNCHANGED <<aside, db, df, emp_cache, survey_cache, exc, cache_file, runs, prev, before, analysis>>

\* stats.update(ai_stats); processed = created + updated; db.session.commit(); return
CommitAtCountingSkipped(w, positions) ==
    /\ pc[w] \in positions
    /\ db' = View(w)
    /\ staged' = [staged EXCEPT ![w] = EmptySession]
    /\ stats' = [stats EXCEPT ![w].processed =
                    stats[w].created + stats[w].updated + stats[w].skipped]
    /\ pc' = [pc EXCEPT ![w] = "returned"]
    /\ prev' = Some(df[w])
    /\ idx' = [idx EXCEPT ![w] = 0]
    /\ emp_cache' = [emp_cache EXCEPT ![w] = {}]
    /\ survey_cache' = [survey_cache EXCEPT ![w] = {}]
    /\ last' = [last EXCEPT ![w] = NoRow]
    /\ steps' = [steps EXCEPT ![w] = Append(@, "commit")]
    /\ UNCHANGED <<aside, seq, df, exc, cache_file, _pipeline, built, runs, calls, before, analysis>>

CommitAt(w, positions) ==
    /\ pc[w] \in positions
    /\ db' = View(w)
    /\ staged' = [staged EXCEPT ![w] = EmptySession]
    /\ stats' = [stats EXCEPT ![w].processed = stats[w].created + stats[w].updated]
    /\ pc' = [pc EXCEPT ![w] = "returned"]
    /\ prev' = Some(df[w])
    /\ idx' = [idx EXCEPT ![w] = 0]
    /\ emp_cache' = [emp_cache EXCEPT ![w] = {}]
    /\ survey_cache' = [survey_cache EXCEPT ![w] = {}]
    /\ last' = [last EXCEPT ![w] = NoRow]
    /\ steps' = [steps EXCEPT ![w] = Append(@, "commit")]
    /\ UNCHANGED <<aside, seq, df, exc, cache_file, _pipeline, built, runs, calls, before, analysis>>

\* A commit issued as soon as the surveys are flushed
CommitBeforeResponses(w) == CommitAt(w, {"begin3", "commit"})

\* The commit is the last statement of the try block.
Commit(w) == CommitAt(w, {"commit"})

\* An exception escapes a pass (a query outside the per-row try blocks fails)
\* or the commit: the except clause of run_pipeline rolls back and re-raises.
PassRaises(w) ==
    /\ pc[w] \in {"pass1", "pass2", "begin3", "commit"}
    /\ Rollback(w, "OperationalError")
    /\ UNCHANGED <<aside, db, seq, df, stats, cache_file, _pipeline, built, runs, calls, before,
                   analysis, steps>>

\* analyze_response(response_id) called by a collaborator (the batch task and
\* the bootstrap command call it once per stored response id).  Nothing is
\* committed by the call: the writes stay in the caller's session.
AnalyzeCall(w) ==
    /\ ~Active(w)
    /\ runs < MaxRuns
    /\ runs' = runs + 1
    /\ \E response \in View(w).responses :
         \E out \in [AnalysableFields(response) -> EngineOutcomes],
            load_ok \in (IF _pipeline # 0 THEN {TRUE} ELSE BOOLEAN) :
           \E a \in {analyze_response(staged[w], seq, response.id, out, _pipeline # 0,
                                      load_ok, db)} :
              /\ staged' = [staged EXCEPT ![w] = a.st]
              /\ seq' = a.seq
              /\ _pipeline' = Constructed(a.loaded)
              /\ built' = IF _pipeline = 0 /\ a.loaded THEN built + 1 ELSE built
              /\ analysis' = [rid |-> response.id, raised |-> a.raised,
                              outcome |-> IF a.raised THEN <<>> ELSE out,
                              pre_sent |-> {x \in View(w).sentiments :
                                              x.response_id = response.id},
                              invoked |-> a.invoked,
                              repeat |-> /\ ~a.raised
                                         /\ analysis.rid = response.id
                                         /\ ~analysis.raised
                                         /\ analysis.outcome = out]
    /\ UNCHANGED <<aside, db, pc, df, idx, emp_cache, survey_cache, stats, exc, cache_file,
                   calls, last, prev, before, steps>>

Next ==
    \E w \in Scheduler :
        \/ \E force_local \in BOOLEAN :
             \E source \in Remote(FilesOf(RowCatalogue), force_local) :
               run_pipeline(w, source, force_local, TRUE)
        \/ _process_employees_and_departments(w)
        \/ _process_surveys(w)
        \/ BeginResponses(w)
        \/ ProcessResponseRow(w)
        \/ Commit(w)
        \/ PassRaises(w)

Spec == Init /\ [][Next]_vars

\* -------------------------------------------- a database that already holds rows
\* The rows the test fixtures put into the tables before the service is
\* called: one department, employee and survey, the response of rowA and a
\* sentiment for each of its two analysable comments.
StoredTables ==
    [departments |-> {[id |-> 1, name |-> "Eng"]},
     employees |-> {[id |-> 1, email |-> "a@x.com", name |-> "Ann",
                     department_id |-> 1, role |-> Some(dev),
                     tenure |-> "Entre 1 e 2 anos"]},
     surveys |-> {[id |-> 1, date |-> <<2022, 1, 1>>, name |-> SurveyName(<<2022, 1, 1>>)]},
     responses |-> {[id |-> 1, employee_id |-> 1, survey_id |-> 1,
                     metrics |-> SurveyResponseSchema(rowA).metrics,
                     texts |-> SurveyResponseSchema(rowA).texts]},
     sentiments |-> {[id |-> 1, response_id |-> 1, field_name |-> "role_interest_comment",
                      sentiment_label |-> "POSITIVE", sentiment_score |-> 90],
                     [id |-> 2, response_id |-> 1, field_name |-> "enps_comment",
                      sentiment_label |-> "POSITIVE", sentiment_score |-> 50]}]

InitStored == InitOn(StoredTables)

NextStored ==
    \E w \in Scheduler :
        \/ \E force_local \in BOOLEAN :
             \E source \in Remote(FilesOf(StoredCatalogue), force_local) :
               run_pipeline(w, source, force_local, TRUE)
        \/ _process_employees_and_departments(w)
        \/ _process_surveys(w)
        \/ BeginResponses(w)
        \/ ProcessResponseRow(w)
        \/ Commit(w)
        \/ PassRaises(w)

SpecStored == InitStored /\ [][NextStored]_vars

\* ------------------------------------------ runs that may overlap in time
\* The sample_data fixture: department, employee and survey, no response.
SampleTables == [StoredTables EXCEPT !.responses = {}, !.sentiments = {}]

InitOverlap == InitOn(SampleTables)

OverlapCatalogue == {rowA, rowD}

NextOverlap ==
    \E w \in Workers :
        \/ \E force_local \in BOOLEAN :
             \E source \in Remote(FilesOf(OverlapCatalogue), force_local) :
               run_pipeline(w, source, force_local, FALSE)
        \/ _process_employees_and_departments(w)
        \/ _process_surveys(w)
        \/ BeginResponses(w)
        \/ ProcessResponseRow(w)
        \/ Commit(w)
        \/ PassRaises(w)

SpecOverlap == InitOverlap /\ [][NextOverlap]_vars

\* --------------------------- the pipeline and separate analyze_response calls
EnrichCatalogue == {rowA, rowD, rowE, rowF}

NextEnrich ==
    \E w \in Scheduler :
        \/ \E force_local \in BOOLEAN :
             \E source \in Remote(FilesOf(EnrichCatalogue), force_local) :
               run_pipeline(w, source, force_local, TRUE)
        \/ _process_employees_and_departments(w)
        \/ _process_surveys(w)
        \/ BeginResponses(w)
        \/ ProcessResponseRow(w)
        \/ Commit(w)
        \/ PassRaises(w)
        \/ AnalyzeCall(w)

SpecEnrich == Init /\ [][NextEnrich]_vars

\* ------------- stored sentiments, the pipeline and separate analyze_response calls
\* rowB changes a metric of the stored response, rowS one of its texts.
UpsertCatalogue == {rowB, rowS}

NextUpsert ==
    \E w \in Scheduler :
        \/ \E force_local \in BOOLEAN :
             \E source \in Remote(FilesOf(UpsertCatalogue), force_local) :
               run_pipeline(w, source, force_local, TRUE)
        \/ _process_employees_and_departments(w)
        \/ _process_surveys(w)
        \/ BeginResponses(w)
        \/ ProcessResponseRow(w)
        \/ Commit(w)
        \/ PassRaises(w)
        \/ AnalyzeCall(w)

SpecUpsert == InitStored /\ [][NextUpsert]_vars

\* ------------------------- one run on a file with rows that fail validation
\* rowE belongs to a second employee, rowF and rowM fail SurveyResponseSchema
\* (the date, a metric) and rowI fails EmployeeSchema.
BatchCatalogue == {rowA, rowE, rowF, rowI, rowM}

NextBatch ==
    \E w \in Scheduler :
        \/ /\ runs = 0
           /\ \E force_local \in BOOLEAN :
                \E source \in Remote(FilesOf(BatchCatalogue), force_local) :
                  run_pipeline(w, source, force_local, TRUE)
        \/ _process_employees_and_departments(w)
        \/ _process_surveys(w)
        \/ BeginResponses(w)
        \/ ProcessResponseRow(w)
        \/ Commit(w)
        \/ PassRaises(w)

SpecBatch == Init /\ [][NextBatch]_vars

\* ------------------------- stored rows and files that change the employee cells
StaffCatalogue == {rowJ, rowK, rowL}

NextStaff ==
    \E w \in Scheduler :
        \/ \E force_local \in BOOLEAN :
             \E source \in Remote(FilesOf(StaffCatalogue), force_local) :
               run_pipeline(w, source, force_local, TRUE)
        \/ _process_employees_and_departments(w)
        \/ _process_surveys(w)
        \/ BeginResponses(w)
        \/ ProcessResponseRow(w)
        \/ Commit(w)
        \/ PassRaises(w)

SpecStaff == InitStored /\ [][NextStaff]_vars

\* ------------------------------------------------ _map_stars_to_label on its own
\* What neither a _map_stars_to_label call nor a get_pipeline call touches.
pipeline_state == <<db, seq, staged, pc, df, idx, emp_cache, survey_cache, stats, exc,
                    cache_file, runs, calls, last, prev, before, analysis, steps, task>>

\* The characters a label is made of: digits on and between the thresholds,
\* whitespace, a letter and a sign.
LabelAlphabet == {"4", "3", "2", " ", "s", "-"}

InitLabel == \E label \in SeqsUpTo(LabelAlphabet, MaxLabel) : InitWith(EmptyTables, label)

MapStars ==
    /\ mapped = ""
    /\ mapped' = _map_stars_to_label(star_label)
    /\ UNCHANGED <<pipeline_state, _pipeline, built, star_label, gp>>

SpecLabel == InitLabel /\ [][MapStars]_vars

\* ------------------------------------------- get_pipeline called by two threads
\* if cls._pipeline is None: the attribute is read and the branch is taken.
get_pipeline_test(t) ==
    /\ gp[t].pc = "idle"
    /\ gp[t].n < MaxRuns
    /\ gp' = [gp EXCEPT ![t].pc = IF _pipeline = 0 THEN "load" ELSE "return",
                        ![t].n = @ + 1]
    /\ UNCHANGED <<pipeline_state, _pipeline, built, star_label, mapped>>

\* cls._pipeline = pipeline(...): the model is loaded and the attribute is
\* assigned, or the load raises and get_pipeline re-raises.
get_pipeline_load(t) ==
    /\ gp[t].pc = "load"
    /\ \E ok \in BOOLEAN :
         IF ok
         THEN /\ built' = built + 1
              /\ _pipeline' = built + 1
              /\ gp' = [gp EXCEPT ![t].pc = "return"]
         ELSE /\ gp' = [gp EXCEPT ![t].pc = "idle"]
              /\ UNCHANGED <<_pipeline, built>>
    /\ UNCHANGED <<pipeline_state, star_label, mapped>>

\* return cls._pipeline
get_pipeline_return(t) ==
    /\ gp[t].pc = "return"
    /\ gp' = [gp EXCEPT ![t].pc = "idle", ![t].got = _pipeline]
    /\ UNCHANGED <<pipeline_state, _pipeline, built, star_label, mapped>>

NextThreads ==
    \E t \in Workers :
        \/ get_pipeline_test(t)
        \/ get_pipeline_load(t)
        \/ get_pipeline_return(t)

SpecThreads == Init /\ [][NextThreads]_vars

\* --------------------------------------------------- the Celery retry wrappers
\* @celery.task(..., max_retries=3) and retry_kwargs={'max_retries': 3}
max_retries == 3

\* Everything but the task table.
outside_tasks == <<db, seq, staged, pc, df, idx, emp_cache, survey_cache, stats, exc,
                   cache_file, _pipeline, built, runs, calls, last, prev, before,
                   analysis, steps, star_label, mapped, gp>>

\* Task.retry(exc=e, countdown=...): once request.retries has reached
\* max_retries the exception is raised to the caller of the task, else the
\* task is sent again with request.retries + 1 after countdown seconds.
retry_once_more(tk, e, countdown) ==
    IF tk.retries > max_retries
    THEN [tk EXCEPT !.state = "failed", !.exc = e]
    ELSE [tk EXCEPT !.state = "queued", !.retries = @ + 1,
                    !.delays = Append(@, countdown)]

retry(tk, e, countdown) ==
    IF tk.retries >= max_retries
    THEN [tk EXCEPT !.state = "failed", !.exc = e]
    ELSE [tk EXCEPT !.state = "queued", !.retries = @ + 1,
                    !.delays = Append(@, countdown)]

\* The countdowns autoretry_for can pick: min(maximum, factor * 2 ** retries),
\* and with retry_jitter a random integer between 0 and that value.
get_exponential_backoff_interval(factor, retries, maximum, full_jitter) ==
    LET countdown == Min({maximum, factor * 2 ^ retries})
    IN IF full_jitter THEN 0..countdown ELSE {countdown}

\* async_ingest_data: IngestionService has no attribute process_data, so the
\* call in the try block raises AttributeError; the except clause retries
\* with countdown 60 * 2 ** self.request.retries.
async_ingest_data ==
    LET tk == task["async_ingest_data"]
    IN /\ tk.state = "queued"
       /\ task' = [task EXCEPT !["async_ingest_data"] =
                      retry([tk EXCEPT !.n = @ + 1], "AttributeError",
                            60 * 2 ^ tk.retries)]
       /\ UNCHANGED outside_tasks

\* run_full_data_sync: IngestionService.run_pipeline() with its defaults
\* (force_local=False); the task is running until the pipeline returns or raises.
run_full_data_sync(w, source) ==
    /\ task["run_full_data_sync"].state = "queued"
    /\ StartRun(w, source, FALSE, TRUE, max_retries + 1)
    /\ task' = [task EXCEPT !["run_full_data_sync"].state = "started",
                            !["run_full_data_sync"].n = @ + 1]

\* return msg
run_full_data_sync_returns(w) ==
    /\ task["run_full_data_sync"].state = "started"
    /\ pc[w] = "returned"
    /\ task' = [task EXCEPT !["run_full_data_sync"].state = "succeeded"]
    /\ UNCHANGED outside_tasks

\* raise e, caught by autoretry_for=(Exception,): retry_backoff=True is the
\* factor 1, retry_backoff_max keeps its default of 600, retry_jitter=True.
run_full_data_sync_raises(w) ==
    /\ task["run_full_data_sync"].state = "started"
    /\ pc[w] = "raised"
    /\ \E countdown \in get_exponential_backoff_interval(
                             1, task["run_full_data_sync"].retries, 600, TRUE) :
          task' = [task EXCEPT !["run_full_data_sync"] = retry(@, exc[w], countdown)]
    /\ UNCHANGED outside_tasks

\* for index, resp_id in enumerate(all_response_ids): analyze_response(resp_id)
\* inside its own try; a call that raises adds one to error_count and the
\* loop goes on.  S carries the session, the keys and the engine attribute.
RECURSIVE analyze_each(_, _, _, _, _)
analyze_each(all_response_ids, S, out, load_ok, d) ==
    IF all_response_ids = {} THEN S
    ELSE LET resp_id == Min(all_response_ids)
             a == analyze_response(S.st, S.seq, resp_id, out, S.loaded, load_ok, d)
         IN analyze_each(all_response_ids \ {resp_id},
                         [st |-> a.st, seq |-> a.seq, loaded |-> a.loaded,
                          success_count |-> S.success_count + (IF a.raised THEN 0 ELSE 1),
                          error_count |-> S.error_count + (IF a.raised THEN 1 ELSE 0)],
                         out, load_ok, d)

\* async_analyze_batch in a worker that runs the task inside an application
\* context: the ids are read, every response is analysed and the task returns
\* 'Batch Complete...'.  The body holds no db.session.commit(): what
\* analyze_response flushed stays pending in the session of the worker.  The
\* engine answers per field name and is constructible, or not, for the task.
async_analyze_batch(w) ==
    /\ task["async_analyze_batch"].state = "queued"
    /\ ~Active(w)
    /\ \E out \in [UNION {AnalysableFields(r) : r \in View(w).responses} -> EngineOutcomes],
          load_ok \in (IF _pipeline # 0 THEN {TRUE} ELSE BOOLEAN) :
         \E S \in {analyze_each(Ids(View(w).responses),
                                [st |-> staged[w], seq |-> seq, loaded |-> _pipeline # 0,
                                 success_count |-> 0, error_count |-> 0],
                                out, load_ok, db)} :
            /\ staged' = [staged EXCEPT ![w] = S.st]
            /\ seq' = S.seq
            /\ _pipeline' = Constructed(S.loaded)
            /\ built' = IF _pipeline = 0 /\ S.loaded THEN built + 1 ELSE built
    /\ task' = [task EXCEPT !["async_analyze_batch"].state = "succeeded",
                            !["async_analyze_batch"].n = @ + 1]
    /\ UNCHANGED <<star_label, mapped, gp, db, pc, df, idx, emp_cache, survey_cache, stats,
                   exc, cache_file, runs, calls, last, prev, before, analysis, steps>>

\* The same task in a worker without an application context (extensions.py
\* builds a plain Celery object): db.session raises at the first query and
\* the outer except clause re-raises.
async_analyze_batch_raises ==
    /\ task["async_analyze_batch"].state = "queued"
    /\ task' = [task EXCEPT !["async_analyze_batch"].state = "failed",
                            !["async_analyze_batch"].n = @ + 1,
                            !["async_analyze_batch"].exc = "RuntimeError"]
    /\ UNCHANGED outside_tasks

\* The pipeline and the batch task on the stored fixture.
NextAnalyze ==
    \/ async_analyze_batch_raises
    \/ \E w \in Scheduler :
        \/ \E force_local \in BOOLEAN :
             \E source \in Remote(FilesOf(UpsertCatalogue), force_local) :
               run_pipeline(w, source, force_local, TRUE)
        \/ _process_employees_and_departments(w)
        \/ _process_surveys(w)
        \/ BeginResponses(w)
        \/ ProcessResponseRow(w)
        \/ Commit(w)
        \/ PassRaises(w)
        \/ async_analyze_batch(w)

SpecAnalyze == InitStored /\ [][NextAnalyze]_vars

\* The file DEFAULT_URL serves when it answers: one row without comments.
TaskFiles == {<<rowE>>}

NextTasks ==
    \/ async_ingest_data
    \/ \E w \in Scheduler :
        \/ \E source \in Remote(TaskFiles, FALSE) :
               run_full_data_sync(w, source)
        \/ _process_employees_and_departments(w)
        \/ _process_surveys(w)
        \/ BeginResponses(w)
        \/ ProcessResponseRow(w)
        \/ Commit(w)
        \/ PassRaises(w)
        \/ run_full_data_sync_returns(w)
        \/ run_full_data_sync_raises(w)

SpecTasks == Init /\ [][NextTasks]_vars

\* ================================================================ properties
\* Vocabulary of the properties, stated on the stored values themselves.
TrimmedText(t) == IF t = None THEN <<>> ELSE Strip(t[1])

TextDiffers(stored, dto) ==
    \E f \in TextFields : TrimmedText(stored.texts[f]) # TrimmedText(dto.texts[f])

MetricDiffers(stored, dto) ==
    \E m \in MetricFields : stored.metrics[m] # dto.metrics[m]

UniqueResponses(tables) ==
    \A x, y \in tables.responses :
        (x.employee_id = y.employee_id /\ x.survey_id = y.survey_id) => x = y

SentimentsOf(tables, rid) == {x \in tables.sentiments : x.response_id = rid}

\* The response pass of worker w has just finished a row.
Processed(w) == pc[w] \in {"pass3", "commit"} /\ idx[w] > 1 /\ last[w].kind # "none"

RowOf(w) == df[w][idx[w] - 1]

Incoming(w) == SurveyResponseSchema(RowOf(w))

\* The row just processed matched a response that was already stored or staged.
Matched(w) == Processed(w) /\ last[w].pre # None

ResponsesWithId(w, rid) == {x \in View(w).responses : x.id = rid}

\* C1: a second run on the identical input, directly after a run that
\* returned, creates nothing, updates nothing and never calls analyze_response.
C1_SecondRunIsIdle ==
    \A w \in Workers :
        (pc[w] = "returned" /\ before[w].prev = Some(df[w]))
            => /\ stats[w].created = 0
               /\ stats[w].updated = 0
               /\ calls[w] = <<>>

\* C2: at most one Response per (employee_id, survey_id), in the committed
\* tables and in what every session reads; a row whose key was already used by
\* an earlier valid row of the same file is reconciled against that response.
C2_OneResponsePerPair ==
    /\ UniqueResponses(db)
    /\ \A w \in Workers :
        /\ UniqueResponses(View(w))
        /\ (Processed(w) /\ last[w].fk # None
              /\ \E j \in 1..(idx[w] - 2) :
                    /\ df[w][j].email = RowOf(w).email
                    /\ SurveyResponseValid(df[w][j])
                    /\ SurveyResponseSchema(df[w][j]).response_date = Incoming(w).response_date)
           => last[w].kind \in {"UNCHANGED", "UPDATED"}

C2_Witness ==
    \E w \in Workers :
        /\ pc[w] = "returned"
        /\ df[w] = <<rowA, rowD>>
        /\ stats[w].created = 1
        /\ stats[w].updated = 1
        /\ Cardinality(db.responses) = 1

\* C3: after runs that overlapped have all finished, there is still at most
\* one Response per (employee_id, survey_id).
C3_OverlapKeepsPairsUnique ==
    (\A w \in Workers : ~Active(w)) => UniqueResponses(db)

\* C4: a run that raised has committed nothing (the tables are what they were
\* when it started), has left nothing pending in its session, and raised the
\* exception that escaped: the loader's when no rows were loaded, else the pass's.
C4_RaisedRunCommitsNothing ==
    \A w \in Workers :
        pc[w] = "raised"
            => /\ db = before[w].db
               /\ staged[w] = EmptySession
               /\ exc[w] = IF df[w] = <<>> THEN "FileNotFoundError" ELSE "OperationalError"

\* A run raised after its passes had staged an employee, a survey and a response.
C4_Witness ==
    \E w \in Workers :
        /\ pc[w] = "raised"
        /\ seq.employees > Cardinality(db.employees)
        /\ seq.surveys > Cardinality(db.surveys)
        /\ seq.responses > Cardinality(db.responses)

\* C5: a row that matches a response and changes a text (after trimming) purges
\* every sentiment row the response had, whatever its field, and
\* analyze_response is called exactly once, for that response, within the row.
C5_TextChangePurgesAndEnriches ==
    \A w \in Workers :
        (Matched(w) /\ TextDiffers(last[w].pre[1], Incoming(w)))
            => /\ Ids(last[w].pre_sent) \cap Ids(View(w).sentiments) = {}
               /\ last[w].ncalls = 1
               /\ calls[w] # <<>>
               /\ calls[w][Len(calls[w])] = last[w].pre[1].id

\* The response had a sentiment on two fields, only enps_comment changed.
C5_Witness ==
    \E w \in Workers :
        /\ Matched(w)
        /\ RowOf(w) = rowG
        /\ {x.field_name : x \in last[w].pre_sent} = {"role_interest_comment", "enps_comment"}
        /\ TextDiffers(last[w].pre[1], Incoming(w))
        /\ SentimentsOf(View(w), last[w].rid) = {}

\* C6: a row that matches a response and differs from it in metrics only
\* updates the response and counts it as updated; analyze_response is not
\* called, ai_analyzed stays, and the response's sentiment rows stay as they were.
C6_MetricOnlyChangeSkipsEnrichment ==
    \A w \in Workers :
        (Matched(w) /\ MetricDiffers(last[w].pre[1], Incoming(w))
                    /\ ~TextDiffers(last[w].pre[1], Incoming(w)))
            => /\ last[w].d.updated = 1
               /\ last[w].d.ai_analyzed = 0
               /\ last[w].ncalls = 0
               /\ \A x \in ResponsesWithId(w, last[w].rid) : x.metrics = Incoming(w).metrics
               /\ SentimentsOf(View(w), last[w].rid) = last[w].pre_sent

C6_Witness ==
    \E w \in Workers :
        /\ Matched(w)
        /\ RowOf(w) = rowB
        /\ MetricDiffers(last[w].pre[1], Incoming(w))
        /\ ~TextDiffers(last[w].pre[1], Incoming(w))
        /\ Cardinality(last[w].pre_sent) = 2
        /\ stats[w].updated >= 1

\* C7: a row that matches a response with equal metrics and with texts equal
\* after trimming is UNCHANGED: response and sentiments are as before,
\* analyze_response is not called and skipped alone grows, by one.
C7_TrimmedEqualRowIsUnchanged ==
    \A w \in Workers :
        (Matched(w) /\ ~MetricDiffers(last[w].pre[1], Incoming(w))
                    /\ ~TextDiffers(last[w].pre[1], Incoming(w)))
            => /\ ResponsesWithId(w, last[w].rid) = {last[w].pre[1]}
               /\ SentimentsOf(View(w), last[w].rid) = last[w].pre_sent
               /\ last[w].ncalls = 0
               /\ last[w].d = [created |-> 0, updated |-> 0, skipped |-> 1,
                               errors |-> 0, ai_analyzed |-> 0]

\* The raw texts differ (a trailing space; a whitespace-only cell against an
\* absent value) and the row is still unchanged.
C7_Witness ==
    \E w \in Workers :
        /\ Matched(w)
        /\ RowOf(w) = rowC
        /\ last[w].pre[1].texts["enps_comment"] = Some(good)
        /\ last[w].pre[1].texts["contribution_comment"] = None
        /\ last[w].d.skipped = 1
        /\ last[w].pre_sent # {}

\* C8: the enrichment decision is taken on the values the response held before
\* the overwrite: a text that differs after trimming makes the row run
\* enrichment, also when metrics change in the same row.
C8_TextDecisionUsesStoredValues ==
    \A w \in Workers :
        (Matched(w) /\ TextDiffers(last[w].pre[1], Incoming(w)))
            => /\ last[w].ai
               /\ last[w].d.updated = 1
               /\ last[w].d.ai_analyzed + last[w].d.errors = 1
               /\ \A x \in ResponsesWithId(w, last[w].rid) : ~TextDiffers(x, Incoming(w))

C8_Witness ==
    \E w \in Workers :
        /\ Matched(w)
        /\ RowOf(w) = rowG
        /\ TextDiffers(last[w].pre[1], Incoming(w))
        /\ MetricDiffers(last[w].pre[1], Incoming(w))
        /\ last[w].ai

\* The row just processed was valid, resolved both keys and found no response.
NewPair(w) == Processed(w) /\ SurveyResponseValid(RowOf(w))
                 /\ last[w].fk # None /\ last[w].pre = None

CreatedOne(w) ==
    /\ \E x \in View(w).responses :
          /\ x.id = last[w].rid
          /\ <<x.employee_id, x.survey_id>> = last[w].fk[1]
          /\ x.metrics = Incoming(w).metrics
          /\ x.texts = Incoming(w).texts
          /\ \A y \in View(w).responses :
                <<y.employee_id, y.survey_id>> = last[w].fk[1] => y = x
    /\ last[w].d.created = 1
    /\ last[w].ncalls = 1
    /\ calls[w][Len(calls[w])] = last[w].rid

C10_AnalysisInsertsSentiment ==
    (analysis.rid # 0 /\ ~analysis.raised) =>
        \A f \in DOMAIN analysis.outcome :
            (/\ ~analysis.outcome[f].raises
             /\ LeadingInt(analysis.outcome[f].label).ok
             /\ ~\E x \in analysis.pre_sent : x.field_name = f)
            => \A w \in Scheduler :
                 Cardinality({x \in SentimentsOf(View(w), analysis.rid) :
                                 /\ x.field_name = f
                                 /\ x.sentiment_label = _map_stars_to_label(analysis.outcome[f].label)
                                 /\ x.sentiment_score = analysis.outcome[f].score}) = 1

\* A text the enrichment skip rule covers: absent, or shorter than 3 after trimming.
ShortOrAbsent(t) == Len(TrimmedText(t)) < 3

FieldSentiments(rows, f) == {x \in rows : x.field_name = f}

\* C11: analyze_response, called on its own or by the response pass, never
\* invokes the engine on a field whose text is absent or shorter than 3 after
\* trimming, and leaves that field's sentiment rows as they were.
C11_ShortTextIsNeverAnalysed ==
    \A w \in Scheduler :
        /\ analysis.rid # 0 =>
              \A r \in ResponsesWithId(w, analysis.rid) : \A f \in TextFields :
                  ShortOrAbsent(r.texts[f]) =>
                      /\ f \notin analysis.invoked
                      /\ FieldSentiments(SentimentsOf(View(w), r.id), f)
                            = FieldSentiments(analysis.pre_sent, f)
        /\ (Processed(w) /\ last[w].ai) =>
              \A r \in ResponsesWithId(w, last[w].rid) : \A f \in TextFields :
                  ShortOrAbsent(r.texts[f]) =>
                      /\ f \notin last[w].invoked
                      /\ FieldSentiments(SentimentsOf(View(w), r.id), f) = {}

\* analyze_response ran on a response that holds a two-character comment
\* next to comments the engine was invoked on.
C11_Witness ==
    \E w \in Scheduler :
        /\ analysis.rid # 0
        /\ ~analysis.raised
        /\ analysis.invoked # {}
        /\ \E r \in ResponsesWithId(w, analysis.rid) :
              /\ r.texts["contribution_comment"] = Some(<<"o", "k">>)
              /\ "contribution_comment" \notin analysis.invoked

\* The integers a label over LabelAlphabet can start with.
LabelDigits == {DigitOf(c) : c \in LabelAlphabet} \ {-1}

RECURSIVE NumbersOfLen(_)
NumbersOfLen(k) == IF k = 0 THEN {0}
                   ELSE {10 * a + d : a \in NumbersOfLen(k - 1), d \in LabelDigits}

LabelNumbers == LET pos == UNION {NumbersOfLen(k) : k \in 1..MaxLabel}
                IN pos \cup {0 - n : n \in pos}

DigitChar(d) == CHOOSE c \in {"0", "1", "2", "3", "4", "5", "6", "7", "8", "9"} : DigitOf(c) = d

RECURSIVE Decimal(_)
Decimal(n) == IF n < 10 THEN <<DigitChar(n)>>
              ELSE Decimal(n \div 10) \o <<DigitChar(n % 10)>>

Shown(n) == IF n < 0 THEN <<"-">> \o Decimal(0 - n) ELSE Decimal(n)

\* The first whitespace-delimited token of the label is the decimal of n.
LeadsWith(label, n) ==
    LET t == LStrip(label)
        k == Len(Shown(n))
    IN /\ Len(t) >= k
       /\ SubSeq(t, 1, k) = Shown(n)
       /\ (Len(t) = k \/ IsSpace(t[k + 1]))

\* C12: _map_stars_to_label returns POSITIVE when the label's leading integer
\* is >= 4, NEGATIVE when it is <= 2, NEUTRAL when it is 3, and NEUTRAL when
\* the first token is no integer or the label has no token.
C12_StarsMapToLabel ==
    mapped # "" =>
        IF \E n \in LabelNumbers : LeadsWith(star_label, n)
        THEN \A n \in LabelNumbers :
                LeadsWith(star_label, n) =>
                    mapped = (IF n >= 4 THEN "POSITIVE"
                              ELSE IF n <= 2 THEN "NEGATIVE" ELSE "NEUTRAL")
        ELSE mapped = "NEUTRAL"

C12_Witness == mapped = "POSITIVE" /\ star_label = <<"4", " ", "s">>

\* C20: no engine is constructed before the first call that needs one, at
\* most one engine is ever constructed, and all calls that returned an
\* instance returned the same one.
C20_EngineIsBuiltOnce ==
    /\ (runs = 0 /\ \A t \in Workers : gp[t].n = 0) => built = 0
    /\ built <= 1
    /\ \A t, u \in Workers :
          (gp[t].got # 0 /\ gp[u].got # 0) => gp[t].got = gp[u].got

UniqueSentiments(tables) ==
    \A x, y \in tables.sentiments :
        (x.response_id = y.response_id /\ x.field_name = y.field_name) => x = y

\* C13: at most one sentiment row per (response_id, field_name), committed or
\* pending; analyze_response on a field that already has a row keeps that row
\* and overwrites its label, score and rating with the engine's result.
C13_UpsertOverwritesInPlace ==
    /\ UniqueSentiments(db)
    /\ \A w \in Scheduler :
          /\ UniqueSentiments(View(w))
          /\ (analysis.rid # 0 /\ ~analysis.raised) =>
                \A f \in DOMAIN analysis.outcome :
                    (/\ ~analysis.outcome[f].raises
                     /\ LeadingInt(analysis.outcome[f].label).ok
                     /\ FieldSentiments(analysis.pre_sent, f) # {})
                    => \E x \in FieldSentiments(SentimentsOf(View(w), analysis.rid), f) :
                          /\ x.id \in Ids(FieldSentiments(analysis.pre_sent, f))
                          /\ x.sentiment_label = _map_stars_to_label(analysis.outcome[f].label)
                          /\ x.sentiment_score = analysis.outcome[f].score
                          /\ "sentiment_rating" \in DOMAIN x
                          /\ x.sentiment_rating = LeadingInt(analysis.outcome[f].label).val

\* C14: a second analyze_response call on the same response, directly after a
\* first one and with the engine answering the same for every field, leaves
\* the response's sentiment rows exactly as the first call left them.
C14_SecondAnalysisChangesNothing ==
    \A w \in Scheduler :
        analysis.repeat => SentimentsOf(View(w), analysis.rid) = analysis.pre_sent

\* The first call had overwritten a stored POSITIVE/50 row with NEGATIVE/88.
C14_Witness ==
    /\ analysis.repeat
    /\ \E x \in analysis.pre_sent :
          /\ x.field_name = "enps_comment"
          /\ x.sentiment_label = "NEGATIVE"
          /\ x.sentiment_score = 88

\* The engine raised for field f during the latest standalone call.
EngineRaisedOn(f) == f \in DOMAIN analysis.outcome /\ analysis.outcome[f].raises

\* C15: when the engine raises on one field, that field's sentiment rows stay
\* as they were, every other analysable field for which the engine answered
\* with a parseable label has one row holding that answer, and the call
\* returns; inside the response pass the row counts as analysed, not as an
\* error, and the pass goes on.
C15_FieldFailureIsIsolated ==
    \A w \in Scheduler :
        /\ (analysis.rid # 0 /\ \E f \in TextFields : EngineRaisedOn(f)) =>
              /\ ~analysis.raised
              /\ \A f \in DOMAIN analysis.outcome :
                    IF analysis.outcome[f].raises
                    THEN FieldSentiments(SentimentsOf(View(w), analysis.rid), f)
                            = FieldSentiments(analysis.pre_sent, f)
                    ELSE LeadingInt(analysis.outcome[f].label).ok =>
                            \E x \in SentimentsOf(View(w), analysis.rid) :
                                /\ FieldSentiments(SentimentsOf(View(w), analysis.rid), f) = {x}
                                /\ x.sentiment_label = _map_stars_to_label(analysis.outcome[f].label)
                                /\ x.sentiment_score = analysis.outcome[f].score
        /\ (Processed(w) /\ last[w].failed # {}) =>
              /\ ~last[w].ai_raised
              /\ last[w].d.errors = 0
              /\ last[w].d.ai_analyzed = 1
              /\ pc[w] \in {"pass3", "commit"}

\* C16: local_path is written only by a run whose download succeeded, and
\* then holds exactly the downloaded payload; a run with force_local, or
\* whose download failed, leaves the file as it found it (absent included).
C16_CacheWrittenOnlyOnFetch ==
    \A w \in Scheduler :
        pc[w] # "idle" =>
            cache_file = (IF before[w].fetched # None
                          THEN before[w].fetched ELSE before[w].cache)

\* A run fell back to a cache file that an earlier download had written.
C16_Witness ==
    \E w \in Scheduler :
        /\ pc[w] = "returned"
        /\ before[w].fetched = None
        /\ before[w].cache = Some(<<rowA, rowD>>)
        /\ cache_file = Some(<<rowA, rowD>>)

\* C17: the run parses the downloaded payload when the download succeeded,
\* else the cache file's content; without a download and without a cache file
\* it raises FileNotFoundError with no key handed out, nothing pending and
\* the tables as they were.
C17_SourceFallbackOrRaise ==
    \A w \in Scheduler :
        pc[w] # "idle" =>
            IF before[w].fetched # None THEN df[w] = before[w].fetched[1]
            ELSE IF before[w].cache # None THEN df[w] = before[w].cache[1]
            ELSE /\ pc[w] = "raised"
                 /\ exc[w] = "FileNotFoundError"
                 /\ steps[w] = <<>>
                 /\ seq = before[w].seq
                 /\ staged[w] = EmptySession
                 /\ db = before[w].db

\* The first run was not served by the remote and found no cache file.
C17_Witness ==
    \E w \in Scheduler :
        /\ pc[w] = "raised"
        /\ exc[w] = "FileNotFoundError"
        /\ before[w].fetched = None
        /\ before[w].cache = None
        /\ runs = 1

\* C18: a run that returned has gone through the employee pass, the survey
\* pass and the whole response pass and then committed, once; until that
\* commit, and after a raise, the tables are what they were when the run
\* started and no commit has been issued.
C18_CommitsOnceAtTheEnd ==
    \A w \in Scheduler :
        /\ pc[w] = "returned" =>
              steps[w] = <<"employees", "surveys", "responses", "commit">>
        /\ (Active(w) \/ pc[w] = "raised") =>
              /\ db = before[w].db
              /\ \A i \in 1..Len(steps[w]) : steps[w][i] # "commit"

\* A run returned after enriching two responses inline and changed the tables.
C18_Witness ==
    \E w \in Scheduler :
        /\ pc[w] = "returned"
        /\ Len(calls[w]) = 2
        /\ db # before[w].db
        /\ steps[w][Len(steps[w])] = "commit"

DelaysDouble(tk) == \A i \in 1..(Len(tk.delays) - 1) : tk.delays[i + 1] = 2 * tk.delays[i]

\* What holds of every task, whatever its backoff: one delay per retry, at
\* most max_retries retries, one invocation per delivery, and a failure is
\* surfaced only by the invocation that follows the last retry.
BoundedRetries(tk) ==
    /\ tk.retries <= 3
    /\ Len(tk.delays) = tk.retries
    /\ tk.n <= 4
    /\ tk.n \in {tk.retries, tk.retries + 1}
    /\ tk.state = "failed" => (tk.retries = 3 /\ tk.n = 4 /\ tk.exc # "")
    /\ tk.state \in {"failed", "succeeded"} => tk.n = tk.retries + 1

\* C21 as claimed: a failed invocation is retried at most 3 times, every
\* retry after a delay twice the previous one (60 s * 2^n in
\* async_ingest_data), and the failure of the invocation after the third
\* retry is surfaced.
C21_RetriesBackOffExponentially ==
    /\ \A t \in TaskNames : BoundedRetries(task[t]) /\ DelaysDouble(task[t])
    /\ \A i \in 1..Len(task["async_ingest_data"].delays) :
          task["async_ingest_data"].delays[i] = 60 * 2 ^ (i - 1)

\* C21 amended: as above, but in run_full_data_sync the delay of retry n is
\* a random number of seconds between 0 and 2^n (retry_jitter), so that only
\* its upper limit doubles.
C21_RetriesBackOffWithJitter ==
    /\ \A t \in TaskNames : BoundedRetries(task[t])
    /\ \A i \in 1..Len(task["async_ingest_data"].delays) :
          task["async_ingest_data"].delays[i] = 60 * 2 ^ (i - 1)
    /\ \A i \in 1..Len(task["run_full_data_sync"].delays) :
          task["run_full_data_sync"].delays[i] \in 0..(2 ^ (i - 1))

\* Both tasks failed four times in a row; the pipeline task surfaced the
\* loader's exception after delays that did not double.
C21_Witness ==
    /\ task["async_ingest_data"].state = "failed"
    /\ task["async_ingest_data"].delays = <<60, 120, 240>>
    /\ task["run_full_data_sync"].state = "failed"
    /\ task["run_full_data_sync"].exc = "FileNotFoundError"
    /\ task["run_full_data_sync"].delays = <<1, 0, 3>>
    /\ runs = 4

\* No two rows of the table agree on the natural key.
UniqueBy(rows, key(_)) == \A x, y \in rows : key(x) = key(y) => x = y

NaturalKeysUnique(tables) ==
    /\ UniqueBy(tables.departments, LAMBDA x : x.name)
    /\ UniqueBy(tables.employees, LAMBDA x : x.email)
    /\ UniqueBy(tables.surveys, LAMBDA x : x.date)

\* C22: with runs that do not overlap, the committed tables and what every
\* session reads hold at most one Department per name, one Employee per
\* email and one Survey per date: no pass creates a key that is stored or
\* that an earlier row of the pass created.
C22_NaturalKeysStayUnique ==
    /\ NaturalKeysUnique(db)
    /\ \A w \in Scheduler : NaturalKeysUnique(View(w))

\* A second run, on a file that names the same employee, department and
\* date twice, returned on tables that already held all three.
C22_Witness ==
    \E w \in Scheduler :
        /\ pc[w] = "returned"
        /\ runs = 2
        /\ df[w] = <<rowA, rowD>>
        /\ before[w].db.employees # {}
        /\ before[w].db.surveys # {}
        /\ Cardinality(db.departments) = 1
        /\ Cardinality(db.employees) = 1
        /\ Cardinality(db.surveys) = 1

\* Row i is the last row of the file that validates as an employee with its email.
LastForEmail(rows, i) ==
    /\ EmployeeValid(rows[i])
    /\ \A j \in (i + 1)..Len(rows) :
          EmployeeValid(rows[j]) => EmployeeSchema(rows[j]).email # EmployeeSchema(rows[i]).email

\* The employee row carries the validated cells of the input row.
CarriesEmployeeCells(tables, x, row) ==
    /\ x.email = EmployeeSchema(row).email
    /\ x.name = EmployeeSchema(row).name
    /\ x.role = EmployeeSchema(row).role
    /\ x.tenure = EmployeeSchema(row).tenure
    /\ \E dp \in tables.departments :
          dp.id = x.department_id /\ dp.name = EmployeeSchema(row).department

MeaningfulOrAbsent(t) == t = None \/ (Strip(t[1]) # <<>> /\ t[1] # dash)

NoPlaceholderStored(tables) ==
    /\ \A x \in tables.employees :
          /\ MeaningfulOrAbsent(x.role)
          /\ x.tenure \notin {"", " ", "-"}
    /\ \A r \in tables.responses : \A f \in TextFields : MeaningfulOrAbsent(r.texts[f])

\* C30: no optional field of a stored Employee or Response holds an empty
\* or whitespace-only text or the placeholder '-': the validators have mapped
\* such cells to absent.
C30_PlaceholdersAreNeverStored ==
    /\ NoPlaceholderStored(db)
    /\ \A w \in Scheduler : NoPlaceholderStored(View(w))

EntityTables == {"departments", "employees", "surveys", "responses"}

\* Every row the first tables hold is, by its id, in the second.
NothingDeleted(old, new) == \A t \in EntityTables : Ids(old[t]) \subseteq Ids(new[t])

\* The sentiment rows stored when the run of w started that its session no
\* longer reads.
DeletedSentiments(w) ==
    {x \in before[w].db.sentiments : x.id \notin Ids(View(w).sentiments)}

\* C24: a run never deletes a Department, Employee, Survey or Response,
\* neither in its session nor by its commit; a sentiment row disappears only
\* in a row of the response pass that matched its response and changed one
\* of its texts, the row in which the response was handed to enrichment.
C24_OnlyStaleSentimentsAreDeleted ==
    \A w \in Scheduler :
        /\ NothingDeleted(before[w].db, View(w))
        /\ NothingDeleted(before[w].db, db)
        /\ \A x \in DeletedSentiments(w) :
              \E i \in 1..Len(calls[w]) : calls[w][i] = x.response_id
        /\ (Processed(w) /\ ~(last[w].pre_sent \subseteq View(w).sentiments)) =>
              /\ Matched(w)
              /\ TextDiffers(last[w].pre[1], Incoming(w))
        /\ pc[w] \in {"returned", "raised"} =>
              before[w].db.sentiments \ db.sentiments \subseteq DeletedSentiments(w)

\* A run that changed a metric in one row and a text in the next returned:
\* the four entity tables kept their rows and both sentiment rows are gone.
C24_Witness ==
    \E w \in Scheduler :
        /\ pc[w] = "returned"
        /\ df[w] = <<rowB, rowG>>
        /\ Cardinality(DeletedSentiments(w)) = 2
        /\ stats[w].updated = 2
        /\ Ids(db.responses) = {1}

\* C25: the statistics a run returns hold the six counters, none negative,
\* with processed = created + updated and ai_analyzed <= created + updated.
C25_ReturnedStatisticsAddUp ==
    \A w \in Scheduler :
        pc[w] = "returned" =>
            /\ DOMAIN stats[w] = {"created", "updated", "skipped", "errors",
                                   "ai_analyzed", "processed"}
            /\ \A k \in DOMAIN stats[w] : stats[w][k] >= 0
            /\ stats[w].processed = stats[w].created + stats[w].updated
            /\ stats[w].ai_analyzed <= stats[w].created + stats[w].updated

\* A run returned having created one response, whose enrichment raised, and
\* updated it in the next row: it analysed fewer responses than it processed.
C25_Witness ==
    \E w \in Scheduler :
        /\ pc[w] = "returned"
        /\ stats[w].created = 1
        /\ stats[w].updated = 1
        /\ stats[w].processed = 2
        /\ stats[w].ai_analyzed = 1
        /\ stats[w].errors = 1

\* C26: after a row classified UPDATED, the matched response holds the
\* row's validated value in each of its 8 metrics and 8 texts, the fields that
\* compared equal included, under the id, employee and survey it had.
C26_UpdateOverwritesEveryField ==
    \A w \in Scheduler :
        (Processed(w) /\ last[w].kind = "UPDATED") =>
            \E x \in View(w).responses :
                /\ ResponsesWithId(w, last[w].rid) = {x}
                /\ \A m \in MetricFields : x.metrics[m] = Incoming(w).metrics[m]
                /\ \A f \in TextFields : x.texts[f] = Incoming(w).texts[f]
                /\ x.id = last[w].pre[1].id
                /\ x.employee_id = last[w].pre[1].employee_id
                /\ x.survey_id = last[w].pre[1].survey_id

\* The row differed from the response in a metric only; its comment, equal
\* to the stored one up to a trailing space, replaced the stored one.
C26_Witness ==
    \E w \in Scheduler :
        /\ Processed(w)
        /\ last[w].kind = "UPDATED"
        /\ RowOf(w) = rowC
        /\ ~TextDiffers(last[w].pre[1], Incoming(w))
        /\ last[w].pre[1].texts["enps_comment"] = Some(good)
        /\ \E x \in ResponsesWithId(w, last[w].rid) : x.texts["enps_comment"] = Some(goodSp)

StepOrder == <<"employees", "surveys", "responses", "commit">>

\* The steps of run_pipeline that precede each position.
StepsBefore(p) ==
    CASE p = "pass1" -> 0
      [] p = "pass2" -> 1
      [] p \in {"begin3", "pass3"} -> 2
      [] p = "commit" -> 3
      [] p = "returned" -> 4

\* Row i is the first row of the file that is valid and has its key.
FirstWithKey(rows, i, valid(_), key(_)) ==
    /\ valid(rows[i])
    /\ \A j \in 1..(i - 1) : valid(rows[j]) => key(rows[j]) # key(rows[i])

\* The rows created for the first occurrences of the keys of the file have
\* ids in the order of those occurrences.
CreatedInFileOrder(rows, created, valid(_), key(_), keyOf(_)) ==
    \A i, j \in 1..Len(rows) :
        (i < j /\ FirstWithKey(rows, i, valid, key) /\ FirstWithKey(rows, j, valid, key)) =>
            \E x, y \in created :
                keyOf(x) = key(rows[i]) /\ keyOf(y) = key(rows[j]) /\ x.id < y.id

\* C27: a run goes through the employee pass, the survey pass and the
\* response pass in this order, each pass takes the rows in file order, and
\* when the response pass turns to the next row the response of the row
\* before is in the session and its enrichment call has been made and is over.
C27_PassesAndRowsInOrder ==
    \A w \in Scheduler :
        /\ steps[w] = SubSeq(StepOrder, 1, Len(steps[w]))
        /\ (Active(w) \/ pc[w] = "returned") => Len(steps[w]) = StepsBefore(pc[w])
        /\ (pc[w] # "raised" /\ Len(steps[w]) >= 1) =>
              CreatedInFileOrder(df[w], View(w).employees, EmployeeValid,
                                 LAMBDA r : EmployeeSchema(r).email, LAMBDA x : x.email)
        /\ (pc[w] # "raised" /\ Len(steps[w]) >= 2) =>
              CreatedInFileOrder(df[w], View(w).surveys, SurveyResponseValid,
                                 LAMBDA r : SurveyResponseSchema(r).response_date,
                                 LAMBDA x : x.date)
        /\ pc[w] \in {"pass3", "commit"} =>
              /\ idx[w] \in 1..(Len(df[w]) + 1)
              /\ Len(calls[w]) <= idx[w] - 1
              /\ pc[w] = "commit" <=> idx[w] = Len(df[w]) + 1
        /\ (Processed(w) /\ last[w].kind = "NEW") =>
              /\ ResponsesWithId(w, last[w].rid) # {}
              /\ last[w].ai
              /\ last[w].ncalls = 1
              /\ calls[w][Len(calls[w])] = last[w].rid
              /\ last[w].ai_raised
                    \/ last[w].invoked = AnalysableFields(SurveyResponseSchema(RowOf(w)))

\* The second employee of the file came first and got the smaller id; the
\* response pass is at the second row, with the first row's response in
\* the session and its enrichment over.
C27_Witness ==
    \E w \in Scheduler :
        /\ pc[w] = "pass3"
        /\ idx[w] = 2
        /\ df[w] = <<rowE, rowA>>
        /\ \E x, y \in View(w).employees :
              x.email = "b@x.com" /\ y.email = "a@x.com" /\ x.id < y.id
        /\ last[w].kind = "NEW"
        /\ calls[w] = <<1>>
        /\ ~last[w].ai_raised

\* C28: when the engine answers, for an analysable field, with a label whose
\* first token is no integer, analyze_response leaves the field with a
\* sentiment row labelled NEUTRAL.
C28_UnparseableLabelIsNeutral ==
    \A w \in Scheduler :
        (analysis.rid # 0 /\ ~analysis.raised) =>
            \A f \in DOMAIN analysis.outcome :
                (~analysis.outcome[f].raises /\ ~LeadingInt(analysis.outcome[f].label).ok) =>
                    \E x \in FieldSentiments(SentimentsOf(View(w), analysis.rid), f) :
                        x.sentiment_label = "NEUTRAL"

\* A metric cell that is neither blank nor the placeholder and is no integer.
NonNumeric(raw) == ~ParseMetric(raw).ok

\* C29: a row with a well-formed date and a metric cell that is no integer is
\* accepted by the validator with that metric absent: the response pass does
\* not count it as an error and stores its response without the metric.
C29_NonNumericMetricIsAbsent ==
    \A w \in Scheduler :
        (/\ Processed(w)
         /\ EmployeeValid(RowOf(w))
         /\ parse_date(RowOf(w).date).ok
         /\ \E m \in MetricFields : NonNumeric(RowOf(w).metrics[m])) =>
            /\ last[w].kind \in {"NEW", "UPDATED", "UNCHANGED"}
            /\ last[w].d.errors = 0
            /\ \A x \in ResponsesWithId(w, last[w].rid) :
                  \A m \in MetricFields :
                      NonNumeric(RowOf(w).metrics[m]) => x.metrics[m] = None

\* The responses the tables hold for the employee and the survey of a row.
ResponsesOfRow(tables, row) ==
    {r \in tables.responses :
        /\ \E e \in tables.employees :
              e.id = r.employee_id /\ e.email = EmployeeSchema(row).email
        /\ \E x \in tables.surveys :
              x.id = r.survey_id /\ x.date = SurveyResponseSchema(row).response_date}

\* C31: a row that validates as an employee and as a survey response is not
\* skipped when the response pass resolves its employee and survey, and
\* after a run that returned a Response is stored for its pair.
C31_ValidRowsResolveTheirKeys ==
    \A w \in Scheduler :
        /\ (Processed(w) /\ EmployeeValid(RowOf(w)) /\ SurveyResponseValid(RowOf(w))) =>
              /\ last[w].kind # "SKIP_FK"
              /\ last[w].fk # None
        /\ pc[w] = "returned" =>
              \A i \in 1..Len(df[w]) :
                  (EmployeeValid(df[w][i]) /\ SurveyResponseValid(df[w][i])) =>
                      ResponsesOfRow(db, df[w][i]) # {}

\* The row fails EmployeeSchema or SurveyResponseSchema.
FailsValidation(row) == ~EmployeeValid(row) \/ ~SurveyResponseValid(row)

NumberOf(rows, test(_)) == Cardinality({i \in 1..Len(rows) : test(rows[i])})

\* C32: a row that fails validation adds exactly one to errors and neither
\* creates nor modifies a Response, so that the errors a run returns are at
\* least the rows of its file that fail validation.
C32_InvalidRowsAreCounted ==
    \A w \in Scheduler :
        /\ (Processed(w) /\ FailsValidation(RowOf(w))) =>
              /\ last[w].d.errors = 1
              /\ last[w].d.created = 0
              /\ last[w].d.updated = 0
        /\ pc[w] = "returned" => stats[w].errors >= NumberOf(df[w], FailsValidation)

\* C34: a row of the response pass adds one to at most one of created,
\* updated, skipped and errors, so that their sum never exceeds the rows seen.
C34_OneCounterPerRow ==
    \A w \in Scheduler :
        /\ Processed(w) =>
              last[w].d.created + last[w].d.updated + last[w].d.skipped
                 + last[w].d.errors <= 1
        /\ pc[w] \in {"pass3", "commit", "returned"} =>
              stats[w].created + stats[w].updated + stats[w].skipped
                 + stats[w].errors <= Len(df[w])

\* The responses of a pair of keys, and their sentiment rows.
PairResponses(tables, fk) ==
    {r \in tables.responses : <<r.employee_id, r.survey_id>> = fk}

\* C35: a row counted as an error leaves the responses of its pair and their
\* sentiment rows as they were before the row; a run in which every row was
\* counted as an error commits no change to responses and sentiments.
C35_ErrorRowsLeaveNothing ==
    \A w \in Scheduler :
        /\ (Processed(w) /\ last[w].d.errors = 1 /\ last[w].fk # None) =>
              /\ PairResponses(View(w), last[w].fk[1])
                    = (IF last[w].pre = None THEN {} ELSE {last[w].pre[1]})
              /\ \A r \in PairResponses(View(w), last[w].fk[1]) :
                    SentimentsOf(View(w), r.id) = last[w].pre_sent
        /\ (pc[w] = "returned" /\ stats[w].errors = Len(df[w])) =>
              /\ db.responses = before[w].db.responses
              /\ db.sentiments = before[w].db.sentiments

\* A stored response with a comment of 3 or more characters that has no
\* sentiment row.
LacksSentiment(tables, r) ==
    \E f \in AnalysableFields(r) : FieldSentiments(SentimentsOf(tables, r.id), f) = {}

\* C36: a run that returned on the input of the run before it, which had
\* returned too, has handed to enrichment every response that was stored
\* with an analysable comment and without its sentiment row.
C36_LaterRunEnrichesAgain ==
    \A w \in Scheduler :
        (pc[w] = "returned" /\ before[w].prev = Some(df[w])) =>
            \A r \in before[w].db.responses :
                (/\ LacksSentiment(before[w].db, r)
                 /\ \E i \in 1..Len(df[w]) : r \in ResponsesOfRow(before[w].db, df[w][i]))
                    => \E i \in 1..Len(calls[w]) : calls[w][i] = r.id

C33_AsyncIngestSucceedsAtOnce ==
    task["async_ingest_data"].n >= 1 =>
        /\ task["async_ingest_data"].state = "succeeded"
        /\ task["async_ingest_data"].n = 1
        /\ task["async_ingest_data"].retries = 0
        /\ task["async_ingest_data"].delays = <<>>

\* C39: once async_analyze_batch has completed, every sentiment row held by
\* the session it ran in is in the committed table with the same content, so
\* that a separate session reads what the task computed.
C39_BatchResultsAreCommitted ==
    task["async_analyze_batch"].state = "succeeded" =>
        \A w \in Scheduler :
            (~Active(w)) => View(w).sentiments = db.sentiments

\* The rows of the five tables without their surrogate keys: a row is named
\* by its natural key and a reference by the natural key it points to.
EmailOf(tables, id) == (CHOOSE x \in tables.employees : x.id = id).email

DateOf(tables, id) == (CHOOSE x \in tables.surveys : x.id = id).date

PairOf(tables, id) ==
    LET r == CHOOSE x \in tables.responses : x.id = id
    IN <<EmailOf(tables, r.employee_id), DateOf(tables, r.survey_id)>>

Content(tables) ==
    [departments |-> {x.name : x \in tables.departments},
     employees |-> {[email |-> x.email, name |-> x.name, role |-> x.role,
                     tenure |-> x.tenure,
                     department |-> (CHOOSE y \in tables.departments :
                                        y.id = x.department_id).name] :
                    x \in tables.employees},
     surveys |-> {[date |-> x.date, name |-> x.name] : x \in tables.surveys},
     responses |-> {[pair |-> PairOf(tables, x.id), metrics |-> x.metrics,
                     texts |-> x.texts] : x \in tables.responses},
     sentiments |-> {[pair |-> PairOf(tables, x.response_id), field_name |-> x.field_name,
                      sentiment_label |-> x.sentiment_label,
                      sentiment_score |-> x.sentiment_score] : x \in tables.sentiments}]

\* C38: a run that returned after the run before it had raised on the same
\* rows and was rolled back has committed the rows, up to surrogate keys, and
\* returned the statistics of one run on those rows from the tables committed
\* when the failed run started, for some behaviour of the engine.
C38_RetryEqualsSingleRun ==
    \A w \in Scheduler :
        (pc[w] = "returned" /\ before[w].retry) =>
            \E loaded \in BOOLEAN, e \in EngineOutcomes, load_from \in 1..(Len(df[w]) + 1) :
                \E one \in {SingleRun(before[w].db, [t \in TableNames |->
                                          Cardinality(before[w].db[t])],
                                      df[w], loaded, e, load_from)} :
                    /\ Content(db) = Content(one.db)
                    /\ stats[w] = one.stats

\* The failed run had flushed rows before it raised, and the retry created
\* a response and counted it.
C38_Witness ==
    \E w \in Scheduler :
        /\ pc[w] = "returned"
        /\ before[w].retry
        /\ before[w].seq.responses > Cardinality(before[w].db.responses)
        /\ stats[w].created = 1
        /\ stats[w].processed = 1
        /\ db.responses # before[w].db.responses

====
